---- MODULE Spec2Model ----
(***************************************************************************)
(* Model of the fallback client of src/remote_client.py                    *)
(* (RemoteSleepQuotesClient): endpoint discovery over an ordered candidate *)
(* list, cached query dispatch with a flat TTL, and the static offline     *)
(* fallback.  The remote provider and the clock are the environment.       *)
(***************************************************************************)
EXTENDS Integers, Sequences, FiniteSets, TLC

(***************************************************************************)
(* Bounds of the model (not program constants).                            *)
(***************************************************************************)
\* last instant (epoch seconds, local time) up to which the clock advances
MaxTime == 86450

\* instant at which the client is constructed, shortly before a midnight
StartTime == MaxTime - 450

\* amounts by which the clock advances between two operations
TickSteps == {150, 300}

\* largest limit asked of the provider's search
MaxLimit == 10

\* a server URL that is not in fallback_urls
CustomUrl == "http://custom.example"

(***************************************************************************)
(* Program constants.                                                      *)
(***************************************************************************)
fallback_urls ==
    << "https://sleep-quotes-mcp.onrender.com",
       "https://sleep-quotes-mcp.railway.app",
       "https://sleep-quotes-mcp.fly.dev",
       "http://localhost:8000" >>

DefaultTtl == 300

WisdomTtl == 3600

(***************************************************************************)
(* Optional[str] values: <<>> is None, <<s>> is the string s.              *)
(***************************************************************************)
None == <<>>

Some(s) == <<s>>

\* Python truthiness of an Optional[str]: None and "" are falsy
Truthy(opt) == opt # None /\ opt[1] # ""

\* str() of an Optional[str] inside an f-string
Str(opt) == IF opt = None THEN "None" ELSE opt[1]

\* str() of a bool inside an f-string
BoolStr(b) == IF b THEN "True" ELSE "False"

(***************************************************************************)
(* Inputs.                                                                 *)
(***************************************************************************)
\* arguments of RemoteSleepQuotesClient(server_url)
CtorArgs == {None, Some(""), Some(fallback_urls[1]), Some(CustomUrl)}

Urls == {fallback_urls[i] : i \in 1..Len(fallback_urls)} \cup {CustomUrl}

\* arguments of get_inspirational_quote(category, mood, time_based)
QuoteArgs == { <<Some("sleep_hygiene"), None, FALSE>> }

\* arguments of search_quotes(query, limit)
SearchArgs == { <<"paz", 5>> }

\* arguments of get_daily_wisdom(include_tip)
WisdomArgs == {TRUE}

\* ids of the records the provider may pick for a quote, a tip, a wisdom
RecordIds == {1}

\* lists of record ids the provider may answer a search with
SearchResults == { <<>>, <<1>>, <<1, 2>> }

(***************************************************************************)
(* What a request can come back with.  exc is the exception raised by      *)
(* session.get ("" when a response arrived); status is the HTTP status;    *)
(* json tells whether response.json() parses; health is the "status"       *)
(* member of a /health body; complete tells whether every member the       *)
(* caller subscripts is present; ids are the records of the body and ts is *)
(* its "timestamp" member.                                                 *)
(***************************************************************************)
Response(exc, status, json, health, complete, ids, ts) ==
    [exc |-> exc, status |-> status, json |-> json, health |-> health,
     complete |-> complete, ids |-> ids, ts |-> ts]

NoResp == Response("", 0, FALSE, "", FALSE, <<>>, 0)

\* a request on a session that was never opened: None has no attribute get
NoSessionResp == Response("AttributeError", 0, FALSE, "", FALSE, <<>>, 0)

\* session.get on a session that was closed raises RuntimeError
ClosedSessionResp == Response("RuntimeError", 0, FALSE, "", FALSE, <<>>, 0)

TransportFailures ==
    { Response("ClientConnectorError", 0, FALSE, "", FALSE, <<>>, 0),
      Response("TimeoutError", 0, FALSE, "", FALSE, <<>>, 0) }

ProbeResponses ==
    TransportFailures \cup
    { Response("", 503, TRUE, "", FALSE, <<>>, 0),
      Response("", 200, FALSE, "", FALSE, <<>>, 0),
      Response("", 200, TRUE, "degraded", FALSE, <<>>, 0),
      Response("", 200, TRUE, "healthy", TRUE, <<>>, 0) }

\* answers to a data request: failures, and bodies built at instant t
FailureResponses ==
    TransportFailures \cup
    { Response("", 500, TRUE, "", FALSE, <<>>, 0),
      Response("", 200, FALSE, "", FALSE, <<>>, 0),
      Response("", 200, TRUE, "", FALSE, <<>>, 0) }

RecordResponses(t) ==
    { Response("", 200, TRUE, "", TRUE, <<i>>, t) : i \in RecordIds }

SearchResponses(t) ==
    { Response("", 200, TRUE, "", TRUE, ids, t) : ids \in SearchResults }

\* the environment's side of a probe: the candidate answered 200 "healthy"
AnswersHealthy(r) ==
    r.exc = "" /\ r.status = 200 /\ r.json /\ r.health = "healthy"

VARIABLES
    server_url,     \* self.server_url
    session,        \* self.session: "none" | "open" | "closed"
    is_connected,   \* self.is_connected
    cache,          \* self.cache: key -> [data, timestamp]
    cache_ttl,      \* self.cache_ttl
    now,            \* the clock read by datetime.now()
    pc,             \* position of test_connection: "idle" | "probing"
    cands,          \* the list the for loop of test_connection iterates
    idx,            \* index in cands of the probe in flight
    probed,         \* history: probes sent per URL in the current pass
    firstHealthy,   \* history: first URL that answered healthy in the pass
    op,             \* the operation (or step) that ran last
    arg,            \* its cache key ("" when it has none)
    resp,           \* the response the request of a query received
    sent,           \* the requests it issued
    result,         \* the value it returned
    raised,         \* TRUE when it ended by raising to its caller
    srv_op,         \* provider: the endpoint or tool that ran last
    srv_args,       \* provider: the inputs it was given
    srv_reply,      \* provider: what it answered
    params,         \* history: the arguments of the quote call that ran last
    tasks,          \* calls that overlap on one client, each at an await
    wrapper         \* SleepQuotesRemoteClient: _async_client, and its history

client_vars == << server_url, session, is_connected, cache, cache_ttl, now, pc,
                  cands, idx, probed, firstHealthy, op, arg, resp, sent, result,
                  raised, params >>

srv_vars == << srv_op, srv_args, srv_reply >>

conc_vars == << tasks, wrapper >>

vars == << client_vars, srv_vars, conc_vars >>

(***************************************************************************)
(* Values returned to the caller.                                          *)
(***************************************************************************)
Result(success, source, kind, ids, rendered, ts) ==
    [success |-> success, source |-> source, kind |-> kind, ids |-> ids,
     rendered |-> rendered, ts |-> ts]

NoResult == Result(FALSE, "", "", <<>>, 0, 0)

\* the bool returned by test_connection
BoolResult(b) == Result(b, "", "bool", <<>>, 0, 0)

NoProbes == [u \in Urls |-> 0]

\* the calls that can overlap on one client
TaskIds == {1, 2}

\* a call that has not begun
\* resp: the response it resumed with; seq: history, its rank among the
\* calls that returned
NoTask ==
    [pc |-> "none", kind |-> "", key |-> "", sent |-> 0, resp |-> NoResp,
     result |-> NoResult, seq |-> 0]

\* SleepQuotesRemoteClient.__init__: no client yet ("none" | "created").
\* History: closed tells whether close() ran, and whether a client existed
\* when it last ran ("no" | "unused" | "used"); sessions counts the HTTP
\* sessions opened
NoWrapper == [client |-> "none", closed |-> "no", sessions |-> 0]

(***************************************************************************)
(* RemoteSleepQuotesClient.__init__                                        *)
(***************************************************************************)
InitServerUrl(a) == IF Truthy(a) THEN a[1] ELSE fallback_urls[1]

Init ==
    /\ \E a \in CtorArgs : server_url = InitServerUrl(a)
    /\ session = "none"
    /\ is_connected = FALSE
    /\ cache = [k \in {} |-> NoResult]
    /\ cache_ttl = DefaultTtl
    /\ now = StartTime
    /\ pc = "idle"
    /\ cands = <<>>
    /\ idx = 0
    /\ probed = NoProbes
    /\ firstHealthy = ""
    /\ op = "init"
    /\ arg = ""
    /\ resp = NoResp
    /\ sent = <<>>
    /\ result = NoResult
    /\ raised = FALSE
    /\ srv_op = "none"
    /\ srv_args = <<>>
    /\ srv_reply = <<>>
    /\ params = <<>>
    /\ tasks = [t \in TaskIds |-> NoTask]
    /\ wrapper = NoWrapper

(***************************************************************************)
(* test_connection: the candidate list, and one step per probe.            *)
(***************************************************************************)
\* variant: the fixed list is scanned before the current URL
CandidatesFallbacksFirst(url) == fallback_urls \o <<url>>

\* line 68: the current URL first, then the fixed list
Candidates(url) == <<url>> \o fallback_urls

\* variant: any 200 answer is accepted, the "status" member is not read
ProbeAcceptedAny200(r) == r.status = 200

\* lines 71-73: status 200 and data.get("status") == "healthy"
ProbeAccepted(r) == r.status = 200 /\ r.health = "healthy"

\* what raises inside the try of the loop body: session.get, response.json
ProbeRaises(r) == r.exc # "" \/ (r.status = 200 /\ ~r.json)

\* the pass begins: the list of the for statement is built once
StartPass ==
    /\ pc' = "probing"
    /\ cands' = Candidates(server_url)
    /\ idx' = 1
    /\ probed' = NoProbes
    /\ firstHealthy' = ""
    /\ arg' = ""
    /\ resp' = NoResp
    /\ sent' = <<>>
    /\ result' = NoResult
    /\ raised' = FALSE

\* __aenter__: open the session, then await test_connection()
AEnter ==
    /\ pc = "idle"
    /\ session = "none"
    /\ session' = "open"
    /\ op' = "aenter"
    /\ StartPass
    /\ UNCHANGED << server_url, is_connected, cache, cache_ttl, now >>
    /\ params' = <<>>
    /\ UNCHANGED << srv_vars, conc_vars >>

\* a direct call of test_connection()
TestConnection ==
    /\ pc = "idle"
    /\ op' = "test_connection"
    /\ StartPass
    /\ UNCHANGED << server_url, session, is_connected, cache, cache_ttl, now >>
    /\ params' = <<>>
    /\ UNCHANGED << srv_vars, conc_vars >>

\* variant: the accepted candidate is bound but the loop goes on
BindWithoutReturn(url) ==
    /\ server_url' = url
    /\ is_connected' = TRUE
    /\ IF idx = Len(cands)
       THEN /\ pc' = "idle"
            /\ result' = BoolResult(TRUE)
            /\ UNCHANGED << cands, idx >>
       ELSE /\ idx' = idx + 1
            /\ result' = NoResult
            /\ UNCHANGED << pc, cands >>

\* lines 74-77: bind to the accepted candidate and return True
Bind(url) ==
    /\ server_url' = url
    /\ is_connected' = TRUE
    /\ pc' = "idle"
    /\ result' = BoolResult(TRUE)
    /\ UNCHANGED << cands, idx >>

\* variant: a failed pass puts the default URL back
GiveUpResetsUrl ==
    /\ is_connected' = FALSE
    /\ pc' = "idle"
    /\ result' = BoolResult(FALSE)
    /\ server_url' = fallback_urls[1]
    /\ UNCHANGED << cands, idx >>

\* lines 82-84: the loop ran out of candidates, return False
GiveUp ==
    /\ is_connected' = FALSE
    /\ pc' = "idle"
    /\ result' = BoolResult(FALSE)
    /\ UNCHANGED << server_url, cands, idx >>

\* one iteration of the for loop: the probe of cands[idx] comes back with r
Probe(r) ==
    LET url == cands[idx] IN
    /\ pc = "probing"
    /\ IF session = "none" THEN r = NoSessionResp
       ELSE IF session = "closed" THEN r = ClosedSessionResp
       ELSE r \in ProbeResponses
    /\ op' = "probe"
    /\ arg' = ""
    /\ resp' = NoResp
    /\ sent' = IF session # "open" THEN <<>>
               ELSE << [url |-> url, path |-> "/health"] >>
    /\ probed' = IF session # "open" THEN probed
                 ELSE [probed EXCEPT ![url] = @ + 1]
    /\ firstHealthy' = IF firstHealthy = "" /\ AnswersHealthy(r)
                       THEN url ELSE firstHealthy
    /\ raised' = FALSE
    /\ IF ~ProbeRaises(r) /\ ProbeAccepted(r) THEN Bind(url)
       ELSE IF idx = Len(cands) THEN GiveUp
       ELSE /\ idx' = idx + 1
            /\ result' = NoResult
            /\ UNCHANGED << server_url, is_connected, pc, cands >>
    /\ UNCHANGED << session, cache, cache_ttl, now >>
    /\ params' = <<>>
    /\ UNCHANGED << srv_vars, conc_vars >>

(***************************************************************************)
(* The cache: _is_cache_valid, _set_cache, _get_cache.                     *)
(***************************************************************************)
\* variant: the comparison with the TTL is reversed
is_cache_valid_reversed(c, ttl, cache_key, t) ==
    IF cache_key \notin DOMAIN c THEN FALSE
    ELSE (t - c[cache_key].timestamp) > ttl

\* variant: an entry exactly ttl seconds old still counts as valid
is_cache_valid_inclusive(c, ttl, cache_key, t) ==
    IF cache_key \notin DOMAIN c THEN FALSE
    ELSE (t - c[cache_key].timestamp) <= ttl

is_cache_valid(c, ttl, cache_key, t) ==
    IF cache_key \notin DOMAIN c THEN FALSE
    ELSE (t - c[cache_key].timestamp) < ttl

\* variant: an entry that exists is not overwritten
set_cache_keep_first(c, cache_key, data, t) ==
    [k \in DOMAIN c \cup {cache_key} |->
        IF k \in DOMAIN c THEN c[k] ELSE [data |-> data, timestamp |-> t]]

set_cache(c, cache_key, data, t) ==
    [k \in DOMAIN c \cup {cache_key} |->
        IF k = cache_key THEN [data |-> data, timestamp |-> t] ELSE c[k]]

\* NoResult stands for None
get_cache(c, ttl, cache_key, t) ==
    IF is_cache_valid(c, ttl, cache_key, t) THEN c[cache_key].data
    ELSE NoResult

\* `if cached_data:` a stored dict is never empty, None is falsy
IsHit(cached_data) == cached_data # NoResult

(***************************************************************************)
(* _get_offline_response: one payload per kind and a catch-all.            *)
(***************************************************************************)
\* variant: the payload is stamped with the instant of the call
get_offline_response_stamped(response_type) ==
    IF response_type \in {"quote", "tip", "search", "wisdom"}
    THEN Result(FALSE, "offline_fallback", response_type, <<>>, 0, now)
    ELSE Result(FALSE, "offline_fallback", "default", <<>>, 0, now)

get_offline_response(response_type) ==
    IF response_type \in {"quote", "tip", "search", "wisdom"}
    THEN Result(FALSE, "offline_fallback", response_type, <<>>, 0, 0)
    ELSE Result(FALSE, "offline_fallback", "default", <<>>, 0, 0)

(***************************************************************************)
(* Cache keys and the renderings that read the clock.                      *)
(***************************************************************************)
\* strftime('%Y-%m-%d') of the days the clock can reach
DateStr(t) == << "1970-01-01", "1970-01-02", "1970-01-03" >>[(t \div 86400) + 1]

\* strftime('%H:%M'): the minute of the day
HourMinute(t) == (t % 86400) \div 60

\* strftime("%A, %d de %B") together with strftime("%H:%M")
DateAndTime(t) == t \div 60

QuoteKey(category, mood, time_based) ==
    "quote_" \o Str(category) \o "_" \o Str(mood) \o "_" \o BoolStr(time_based)

TipKey == "sleep_tip"

\* variant: the key is built without the date
WisdomKeyNoDate(t, include_tip) == "daily_wisdom_" \o BoolStr(include_tip)

\* line 280
WisdomKey(t, include_tip) ==
    "daily_wisdom_" \o DateStr(t) \o "_" \o BoolStr(include_tip)

(***************************************************************************)
(* What the try blocks of the query methods do with a response.            *)
(***************************************************************************)
\* variant: members are read with .get(), a missing member raises nothing
RaisesNoKeyError(r) ==
    IF r.exc # "" THEN r.exc
    ELSE IF r.status = 200 /\ ~r.json THEN "ContentTypeError"
    ELSE ""

\* the exception raised while handling r inside the try ("" when none)
Raises(r) ==
    IF r.exc # "" THEN r.exc
    ELSE IF r.status = 200 /\ ~r.json THEN "ContentTypeError"
    ELSE IF r.status = 200 /\ ~r.complete THEN "KeyError"
    ELSE ""

\* variant: `except aiohttp.ClientError`
CaughtClientErrorOnly(e) == e \in {"ClientConnectorError", "ContentTypeError"}

\* `except Exception as e` catches every exception of the try block
Caught(e) == TRUE

\* the answers the request of a query can receive
Answers(good) ==
    IF session = "none" THEN {NoSessionResp}
    ELSE IF session = "closed" THEN {ClosedSessionResp}
    ELSE FailureResponses \cup good

Request(path) == << [url |-> server_url, path |-> path] >>

\* the history of the last discovery pass is dropped by the next operation
ClearPass ==
    /\ cands' = <<>>
    /\ idx' = 0
    /\ probed' = NoProbes
    /\ firstHealthy' = ""

\* variant: `if not self.session`
MustAnswerOfflineNoSession == session = "none"

\* lines 124, 185, 229, 276: `if not self.is_connected`
MustAnswerOffline == ~is_connected

\* variant: the lookup that precedes the return removes the expired entries
ReturnLocalEvicting(v) ==
    /\ resp' = NoResp
    /\ sent' = <<>>
    /\ result' = v
    /\ raised' = FALSE
    /\ cache' = [k \in {j \in DOMAIN cache : is_cache_valid(cache, cache_ttl, j, now)}
                   |-> cache[k]]
    /\ UNCHANGED << cache_ttl, server_url, is_connected >>

\* the call returns v without having sent anything
ReturnLocal(v) ==
    /\ resp' = NoResp
    /\ sent' = <<>>
    /\ result' = v
    /\ raised' = FALSE
    /\ UNCHANGED << cache, cache_ttl, server_url, is_connected >>

\* variant: a failed request marks the client disconnected
ReturnFailureDisconnects(kind, path, r) ==
    /\ resp' = r
    /\ sent' = Request(path)
    /\ IF Raises(r) # "" /\ ~Caught(Raises(r))
       THEN result' = NoResult /\ raised' = TRUE
       ELSE result' = get_offline_response(kind) /\ raised' = FALSE
    /\ is_connected' = FALSE
    /\ UNCHANGED << cache, cache_ttl, server_url >>

\* the call fails on response r: the except clause or the else branch
ReturnFailure(kind, path, r) ==
    /\ resp' = r
    /\ sent' = Request(path)
    /\ IF Raises(r) # "" /\ ~Caught(Raises(r))
       THEN result' = NoResult /\ raised' = TRUE
       ELSE result' = get_offline_response(kind) /\ raised' = FALSE
    /\ UNCHANGED << cache, cache_ttl, server_url, is_connected >>

(***************************************************************************)
(* _get_offline_response called on its own, with any kind                  *)
(***************************************************************************)
\* the kinds it is called with in the experiments: the four of the table
\* and two that the table does not hold
OfflineKinds == {"quote", "tip", "search", "wisdom", "status", ""}

OfflineResponse(response_type) ==
    /\ pc = "idle"
    /\ op' = "offline"
    /\ arg' = response_type
    /\ ReturnLocal(get_offline_response(response_type))
    /\ ClearPass
    /\ UNCHANGED << session, now, pc >>
    /\ params' = <<>>
    /\ UNCHANGED << srv_vars, conc_vars >>

(***************************************************************************)
(* get_inspirational_quote                                                 *)
(***************************************************************************)
GetInspirationalQuote(category, mood, time_based, r) ==
    LET cache_key == QuoteKey(category, mood, time_based)
        cached_data == get_cache(cache, cache_ttl, cache_key, now)
        formatted_response ==
            Result(TRUE, "remote_server", "quote", r.ids, HourMinute(now), r.ts)
    IN
    /\ pc = "idle"
    /\ op' = "quote"
    /\ arg' = cache_key
    /\ IF MustAnswerOffline THEN ReturnLocal(get_offline_response("quote"))
       ELSE IF IsHit(cached_data) THEN ReturnLocal(cached_data)
       ELSE /\ r \in Answers(RecordResponses(now))
            /\ IF Raises(r) = "" /\ r.status = 200
               THEN /\ resp' = r
                    /\ sent' = Request("/api/quote")
                    /\ cache' = set_cache(cache, cache_key, formatted_response, now)
                    /\ result' = formatted_response
                    /\ raised' = FALSE
                    /\ UNCHANGED << cache_ttl, server_url, is_connected >>
               ELSE ReturnFailure("quote", "/api/quote", r)
    /\ ClearPass
    /\ UNCHANGED << session, now, pc >>
    /\ params' = << category, mood, time_based >>
    /\ UNCHANGED << srv_vars, conc_vars >>

(***************************************************************************)
(* get_sleep_hygiene_tip                                                   *)
(***************************************************************************)
GetSleepHygieneTip(r) ==
    LET cache_key == TipKey
        cached_data == get_cache(cache, cache_ttl, cache_key, now)
        formatted_response ==
            Result(TRUE, "remote_server", "tip", r.ids, 0, r.ts)
    IN
    /\ pc = "idle"
    /\ op' = "tip"
    /\ arg' = cache_key
    /\ IF MustAnswerOffline THEN ReturnLocal(get_offline_response("tip"))
       ELSE IF IsHit(cached_data) THEN ReturnLocal(cached_data)
       ELSE /\ r \in Answers(RecordResponses(now))
            /\ IF Raises(r) = "" /\ r.status = 200
               THEN /\ resp' = r
                    /\ sent' = Request("/api/tip")
                    /\ cache' = set_cache(cache, cache_key, formatted_response, now)
                    /\ result' = formatted_response
                    /\ raised' = FALSE
                    /\ UNCHANGED << cache_ttl, server_url, is_connected >>
               ELSE ReturnFailure("tip", "/api/tip", r)
    /\ ClearPass
    /\ UNCHANGED << session, now, pc >>
    /\ params' = <<>>
    /\ UNCHANGED << srv_vars, conc_vars >>

(***************************************************************************)
(* search_quotes: no cache is read or written                              *)
(***************************************************************************)
\* lines 241-245: the text that reports that nothing was found
NoMatchesMessage == -1

\* variant: the listing text is built whatever the list holds
SearchMessageAlwaysLists(results) == Len(results)

\* lines 240-256: the message: the "nothing found" text for an empty list,
\* otherwise the listing, identified by the number of quotes it lists
SearchMessage(results) ==
    IF results = <<>> THEN NoMatchesMessage ELSE Len(results)

SearchQuotes(query, limit, r) ==
    LET path == "/api/search/" \o query IN
    /\ pc = "idle"
    /\ op' = "search"
    /\ arg' = "search_" \o query
    /\ IF MustAnswerOffline THEN ReturnLocal(get_offline_response("search"))
       ELSE /\ r \in Answers(SearchResponses(now))
            /\ IF Raises(r) = "" /\ r.status = 200
               THEN /\ resp' = r
                    /\ sent' = Request(path)
                    /\ result' = Result(TRUE, "remote_server", "search",
                                        r.ids, SearchMessage(r.ids), r.ts)
                    /\ raised' = FALSE
                    /\ UNCHANGED << cache, cache_ttl, server_url, is_connected >>
               ELSE ReturnFailure("search", path, r)
    /\ ClearPass
    /\ UNCHANGED << session, now, pc >>
    /\ params' = <<>>
    /\ UNCHANGED << srv_vars, conc_vars >>

(***************************************************************************)
(* get_daily_wisdom: the key holds the date; the store runs with           *)
(* cache_ttl widened, and cache_ttl is restored before the call returns    *)
(***************************************************************************)
GetDailyWisdom(include_tip, r) ==
    LET cache_key == WisdomKey(now, include_tip)
        cached_data == get_cache(cache, cache_ttl, cache_key, now)
        formatted_response ==
            Result(TRUE, "remote_server", "wisdom", r.ids, DateAndTime(now), r.ts)
    IN
    /\ pc = "idle"
    /\ op' = "wisdom"
    /\ arg' = cache_key
    /\ IF MustAnswerOffline THEN ReturnLocal(get_offline_response("wisdom"))
       ELSE IF IsHit(cached_data) THEN ReturnLocal(cached_data)
       ELSE /\ r \in Answers(RecordResponses(now))
            /\ IF Raises(r) = "" /\ r.status = 200
               THEN /\ resp' = r
                    /\ sent' = Request("/api/wisdom")
                    /\ cache' = set_cache(cache, cache_key, formatted_response, now)
                    /\ cache_ttl' = DefaultTtl
                    /\ result' = formatted_response
                    /\ raised' = FALSE
                    /\ UNCHANGED << server_url, is_connected >>
               ELSE ReturnFailure("wisdom", "/api/wisdom", r)
    /\ ClearPass
    /\ UNCHANGED << session, now, pc >>
    /\ params' = <<>>
    /\ UNCHANGED << srv_vars, conc_vars >>

(***************************************************************************)
(* get_server_status: no is_connected test, no cache, its own payloads     *)
(***************************************************************************)
\* variant: a successful status request marks the client connected
GetServerStatusConnects(r) ==
    /\ pc = "idle"
    /\ op' = "status"
    /\ arg' = ""
    /\ r \in Answers({Response("", 200, TRUE, "", TRUE, <<>>, 0)})
    /\ resp' = r
    /\ sent' = IF session # "open" THEN <<>> ELSE Request("/")
    /\ IF r.exc = "" /\ r.status = 200 /\ r.json
       THEN result' = Result(TRUE, "", "status", <<>>, 0, 0) /\ raised' = FALSE
       ELSE IF r.exc = "" /\ r.status # 200
       THEN result' = Result(FALSE, "", "status", <<>>, 0, 0) /\ raised' = FALSE
       ELSE IF Caught(Raises(r))
       THEN result' = Result(FALSE, "", "status", <<>>, 0, 0) /\ raised' = FALSE
       ELSE result' = NoResult /\ raised' = TRUE
    /\ is_connected' = (is_connected \/ (r.exc = "" /\ r.status = 200 /\ r.json))
    /\ ClearPass
    /\ UNCHANGED << server_url, session, cache, cache_ttl, now, pc >>
    /\ params' = <<>>
    /\ UNCHANGED << srv_vars, conc_vars >>

GetServerStatus(r) ==
    /\ pc = "idle"
    /\ op' = "status"
    /\ arg' = ""
    /\ r \in Answers({Response("", 200, TRUE, "", TRUE, <<>>, 0)})
    /\ resp' = r
    /\ sent' = IF session # "open" THEN <<>> ELSE Request("/")
    /\ IF r.exc = "" /\ r.status = 200 /\ r.json
       THEN result' = Result(TRUE, "", "status", <<>>, 0, 0) /\ raised' = FALSE
       ELSE IF r.exc = "" /\ r.status # 200
       THEN result' = Result(FALSE, "", "status", <<>>, 0, 0) /\ raised' = FALSE
       ELSE IF Caught(Raises(r))
       THEN result' = Result(FALSE, "", "status", <<>>, 0, 0) /\ raised' = FALSE
       ELSE result' = NoResult /\ raised' = TRUE
    /\ ClearPass
    /\ UNCHANGED << server_url, session, is_connected, cache, cache_ttl, now, pc >>
    /\ params' = <<>>
    /\ UNCHANGED << srv_vars, conc_vars >>

(***************************************************************************)
(* The environment: time passes between two operations.                    *)
(***************************************************************************)
Tick(d) ==
    /\ pc = "idle"
    /\ now + d <= MaxTime
    /\ now' = now + d
    /\ op' = "tick"
    /\ arg' = ""
    /\ resp' = NoResp
    /\ sent' = <<>>
    /\ result' = NoResult
    /\ raised' = FALSE
    /\ ClearPass
    /\ UNCHANGED << server_url, session, is_connected, cache, cache_ttl, pc >>
    /\ params' = <<>>
    /\ UNCHANGED << srv_vars, conc_vars >>

Next ==
    \/ AEnter
    \/ TestConnection
    \/ \E r \in ProbeResponses \cup {NoSessionResp} : Probe(r)
    \/ \E a \in QuoteArgs, r \in FailureResponses \cup RecordResponses(now) \cup {NoSessionResp} :
          GetInspirationalQuote(a[1], a[2], a[3], r)
    \/ \E r \in FailureResponses \cup RecordResponses(now) \cup {NoSessionResp} :
          GetSleepHygieneTip(r)
    \/ \E a \in SearchArgs, r \in FailureResponses \cup SearchResponses(now) \cup {NoSessionResp} :
          SearchQuotes(a[1], a[2], r)
    \/ \E i \in WisdomArgs, r \in FailureResponses \cup RecordResponses(now) \cup {NoSessionResp} :
          GetDailyWisdom(i, r)
    \/ \E r \in FailureResponses \cup {Response("", 200, TRUE, "", TRUE, <<>>, 0), NoSessionResp} :
          GetServerStatus(r)
    \/ \E k \in OfflineKinds : OfflineResponse(k)
    \/ \E d \in TickSteps : Tick(d)

Spec == Init /\ [][Next]_vars

(***************************************************************************)
(* Quote queries whose arguments differ: strings with underscores, the     *)
(* string "None" and the value None.                                       *)
(***************************************************************************)
KeyArgs ==
    { << Some("sleep_hygiene"), Some("calm"), FALSE >>,
      << Some("sleep"), Some("hygiene_calm"), FALSE >>,
      << None, None, FALSE >>,
      << Some("None"), None, FALSE >> }

NextKeys ==
    \/ AEnter
    \/ \E r \in ProbeResponses : Probe(r)
    \/ \E a \in KeyArgs, r \in FailureResponses \cup RecordResponses(now) :
          GetInspirationalQuote(a[1], a[2], a[3], r)

SpecKeys == Init /\ [][NextKeys]_vars

(***************************************************************************)
(* Calls that overlap on one client.  A query method runs without          *)
(* suspension from its entry to `async with self.session.get(...)`, and    *)
(* again from the resumption that delivers the body (`await                 *)
(* response.json()`) to its return: between the two, other coroutines run. *)
(* Each call is a task: Begin is the first stretch, Finish the second.     *)
(***************************************************************************)
\* the kinds of call that overlap in the experiments, and their arguments
TaskKinds == {"quote", "wisdom"}

\* bodies that tell the responses of two overlapping requests apart
OverlapIds == {1, 2}

OverlapResponses(t) ==
    { Response("", 200, TRUE, "", TRUE, <<i>>, t) : i \in OverlapIds }

TaskKey(kind) ==
    IF kind = "quote"
    THEN QuoteKey(Some("sleep_hygiene"), None, FALSE)
    ELSE WisdomKey(now, TRUE)

\* the clock rendering a formatted response carries
TaskRendering(kind) ==
    IF kind = "quote" THEN HourMinute(now) ELSE DateAndTime(now)

\* history: the order in which the calls returned
NextSeq == 1 + Cardinality({ t \in TaskIds : tasks[t].pc = "done" })

\* variant: cache_ttl keeps the widened value after the store
TtlAfterStoreKeepsWidened(kind) ==
    IF kind = "wisdom" THEN WisdomTtl ELSE cache_ttl

\* lines 330-332: cache_ttl = 3600, _set_cache, cache_ttl = 300 run in one
\* stretch; the other methods do not touch cache_ttl
TtlAfterStore(kind) ==
    IF kind = "wisdom" THEN DefaultTtl ELSE cache_ttl

\* from the entry of the method to its first await
Begin(t, kind) ==
    LET cache_key == TaskKey(kind)
        cached_data == get_cache(cache, cache_ttl, cache_key, now)
        started == [NoTask EXCEPT !.kind = kind, !.key = cache_key]
    IN
    /\ pc = "idle"
    /\ tasks[t].pc = "none"
    /\ tasks' = [tasks EXCEPT ![t] =
          IF MustAnswerOffline
          THEN [started EXCEPT !.pc = "done", !.seq = NextSeq,
                               !.result = get_offline_response(kind)]
          ELSE IF IsHit(cached_data)
          THEN [started EXCEPT !.pc = "done", !.seq = NextSeq,
                               !.result = cached_data]
          ELSE [started EXCEPT !.pc = "waiting", !.sent = 1]]
    /\ UNCHANGED << client_vars, srv_vars, wrapper >>

\* from the resumption with response r to the return
Finish(t, r) ==
    LET kind == tasks[t].kind
        formatted_response ==
            Result(TRUE, "remote_server", kind, r.ids, TaskRendering(kind), r.ts)
        ok == Raises(r) = "" /\ r.status = 200
    IN
    /\ tasks[t].pc = "waiting"
    /\ r \in Answers(OverlapResponses(now))
    /\ tasks' = [tasks EXCEPT ![t] =
          [@ EXCEPT !.pc = "done", !.seq = NextSeq, !.resp = r,
                    !.result = IF ok THEN formatted_response
                               ELSE get_offline_response(kind)]]
    /\ cache' = IF ok THEN set_cache(cache, tasks[t].key, formatted_response, now)
                ELSE cache
    /\ cache_ttl' = IF ok THEN TtlAfterStore(kind) ELSE cache_ttl
    /\ UNCHANGED << server_url, session, is_connected, now, pc, cands, idx,
                    probed, firstHealthy, op, arg, resp, sent, result, raised,
                    params >>
    /\ UNCHANGED << srv_vars, wrapper >>

NextConc ==
    \/ AEnter
    \/ \E r \in ProbeResponses : Probe(r)
    \/ \E t \in TaskIds, kind \in TaskKinds : Begin(t, kind)
    \/ \E t \in TaskIds, r \in FailureResponses \cup OverlapResponses(now) :
          Finish(t, r)
    \/ \E d \in TickSteps : Tick(d)

SpecConc == Init /\ [][NextConc]_vars

(***************************************************************************)
(* SleepQuotesRemoteClient: the wrapper that creates its client on the     *)
(* first call.  The client's variables hold the state of                   *)
(* wrapper._async_client once it is created.                               *)
(***************************************************************************)
\* _get_client, lines 429-431, up to the first await inside __aenter__:
\* _async_client is assigned, the session is opened and the first probe of
\* the discovery pass is in flight.  The caller's query runs when the pass
\* has ended.
WrapperGetClient ==
    /\ wrapper.client = "none"
    /\ pc = "idle"
    /\ wrapper' = [wrapper EXCEPT !.client = "created", !.sessions = @ + 1]
    /\ session' = "open"
    /\ op' = "aenter"
    /\ StartPass
    /\ params' = <<>>
    /\ UNCHANGED << server_url, is_connected, cache, cache_ttl, now >>
    /\ UNCHANGED << srv_vars, tasks >>

\* another call of the wrapper while __aenter__ is suspended: _get_client
\* finds _async_client set (line 429) and returns it at once, and the query
\* method runs on it.  During the first pass is_connected is False (only
\* Bind sets it, and returns), so lines 124, 185, 229, 276 answer offline.
WrapperCallDuringDiscovery(kind) ==
    /\ wrapper.client = "created"
    /\ pc = "probing"
    /\ MustAnswerOffline
    /\ op' = kind
    /\ arg' = ""
    /\ ReturnLocal(get_offline_response(kind))
    /\ params' = <<>>
    /\ UNCHANGED << session, now, pc, cands, idx, probed, firstHealthy >>
    /\ UNCHANGED << srv_vars, conc_vars >>

\* variant: close() drops the client, `self._async_client = None`
WrapperCloseForgetsClient ==
    /\ pc = "idle"
    /\ wrapper' = [wrapper EXCEPT
          !.client = "none",
          !.closed = IF wrapper.client = "created" THEN "used" ELSE "unused"]
    /\ session' = IF wrapper.client = "created" /\ session # "none"
                  THEN "closed" ELSE session
    /\ op' = "close"
    /\ arg' = ""
    /\ resp' = NoResp
    /\ sent' = <<>>
    /\ result' = NoResult
    /\ raised' = FALSE
    /\ ClearPass
    /\ params' = <<>>
    /\ UNCHANGED << server_url, is_connected, cache, cache_ttl, now, pc >>
    /\ UNCHANGED << srv_vars, tasks >>

\* close(), and __aexit__ of the wrapper which awaits it: when a client
\* exists its __aexit__ closes the session (lines 63-64); closing a closed
\* session does nothing.  _async_client is kept.
WrapperClose ==
    /\ pc = "idle"
    /\ wrapper' = [wrapper EXCEPT
          !.closed = IF wrapper.client = "created" THEN "used" ELSE "unused"]
    /\ session' = IF wrapper.client = "created" /\ session # "none"
                  THEN "closed" ELSE session
    /\ op' = "close"
    /\ arg' = ""
    /\ resp' = NoResp
    /\ sent' = <<>>
    /\ result' = NoResult
    /\ raised' = FALSE
    /\ ClearPass
    /\ params' = <<>>
    /\ UNCHANGED << server_url, is_connected, cache, cache_ttl, now, pc >>
    /\ UNCHANGED << srv_vars, tasks >>

\* get_quote, get_tip, search, get_daily_wisdom, status on a wrapper whose
\* client exists: _get_client returns it and the method of the client runs
NextWrapper ==
    \/ WrapperGetClient
    \/ \E r \in ProbeResponses : Probe(r)
    \/ \E kind \in {"quote", "tip", "search", "wisdom"} :
          WrapperCallDuringDiscovery(kind)
    \/ /\ wrapper.client = "created"
       /\ \E a \in QuoteArgs, r \in FailureResponses \cup RecordResponses(now) \cup {ClosedSessionResp} :
             GetInspirationalQuote(a[1], a[2], a[3], r)
    \/ /\ wrapper.client = "created"
       /\ \E r \in FailureResponses \cup RecordResponses(now) \cup {ClosedSessionResp} :
             GetSleepHygieneTip(r)
    \/ /\ wrapper.client = "created"
       /\ \E a \in SearchArgs, r \in FailureResponses \cup SearchResponses(now) \cup {ClosedSessionResp} :
             SearchQuotes(a[1], a[2], r)
    \/ /\ wrapper.client = "created"
       /\ \E i \in WisdomArgs, r \in FailureResponses \cup RecordResponses(now) \cup {ClosedSessionResp} :
             GetDailyWisdom(i, r)
    \/ /\ wrapper.client = "created"
       /\ \E r \in FailureResponses \cup {Response("", 200, TRUE, "", TRUE, <<>>, 0), ClosedSessionResp} :
             GetServerStatus(r)
    \/ WrapperClose
    \/ \E d \in TickSteps : Tick(d)

SpecWrapper == Init /\ [][NextWrapper]_vars

(***************************************************************************)
(* The provider (src/sleep_advice_server.py).  Texts are sequences of      *)
(* characters; a character outside ASCII is written by its name.           *)
(***************************************************************************)
\* SleepQuotesDatabase._initialize_quotes: the shipped corpus
Corpus == <<
    [id |-> 1,
     quote |-> <<
        "C", "a", "d", "a", " ", "n", "o", "c", "h", "e", " ", "e", "s",
        " ", "u", "n", "a", " ", "o", "p", "o", "r", "t", "u", "n", "i",
        "d", "a", "d", " ", "p", "a", "r", "a", " ", "q", "u", "e", " ",
        "t", "u", " ", "m", "e", "n", "t", "e", " ", "y", " ", "c", "u",
        "e", "r", "p", "o", " ", "s", "e", " ", "r", "e", "g", "e", "n",
        "e", "r", "e", "n", " ", "c", "o", "m", "p", "l", "e", "t", "a",
        "m", "e", "n", "t", "e", "." >>,
     author |-> <<
        "D", "r", ".", " ", "S", "l", "e", "e", "p", " ", "C", "o", "a",
        "c", "h" >>,
     category |-> "sleep_hygiene", time_of_day |-> "night", mood |-> "peaceful"],
    [id |-> 2,
     quote |-> <<
        "E", "l", " ", "s", "u", "e", "n_tilde", "o", " ", "e", "s", " ",
        "l", "a", " ", "m", "e", "j", "o", "r", " ", "m", "e", "d", "i",
        "t", "a", "c", "i", "o_acute", "n", " ", "q", "u", "e", " ", "e",
        "x", "i", "s", "t", "e", ".", " ", "E", "n", "t", "r", "e_acute",
        "g", "a", "t", "e", " ", "a", " ", "e_acute", "l", " ", "c", "o",
        "n", " ", "g", "r", "a", "t", "i", "t", "u", "d", "." >>,
     author |-> <<
        "D", "a", "l", "a", "i", " ", "L", "a", "m", "a" >>,
     category |-> "mindfulness", time_of_day |-> "night", mood |-> "calm"],
    [id |-> 3,
     quote |-> <<
        "T", "u", " ", "c", "e", "r", "e", "b", "r", "o", " ", "t", "r",
        "a", "b", "a", "j", "a", " ", "t", "o", "d", "a", " ", "l", "a",
        " ", "n", "o", "c", "h", "e", " ", "o", "r", "g", "a", "n", "i",
        "z", "a", "n", "d", "o", " ", "l", "o", "s", " ", "r", "e", "c",
        "u", "e", "r", "d", "o", "s", " ", "d", "e", "l", " ", "d",
        "i_acute", "a", ".", " ", "D", "a", "l", "e", " ", "e", "l", " ",
        "d", "e", "s", "c", "a", "n", "s", "o", " ", "q", "u", "e", " ",
        "m", "e", "r", "e", "c", "e", "." >>,
     author |-> <<
        "N", "e", "u", "r", "o", "s", "c", "i", "e", "n", "c", "e", " ",
        "T", "o", "d", "a", "y" >>,
     category |-> "science", time_of_day |-> "night", mood |-> "educational"],
    [id |-> 4,
     quote |-> <<
        "D", "e", "s", "c", "o", "n", "e", "c", "t", "a", " ", "l", "o",
        "s", " ", "d", "i", "s", "p", "o", "s", "i", "t", "i", "v", "o",
        "s", ",", " ", "c", "o", "n", "e", "c", "t", "a", " ", "c", "o",
        "n", " ", "t", "u", "s", " ", "s", "u", "e", "n_tilde", "o", "s",
        "." >>,
     author |-> <<
        "S", "l", "e", "e", "p", " ", "E", "x", "p", "e", "r", "t" >>,
     category |-> "sleep_hygiene", time_of_day |-> "evening", mood |-> "motivational"],
    [id |-> 5,
     quote |-> <<
        "E", "l", " ", "s", "u", "e", "n_tilde", "o", " ", "e", "s", " ",
        "e", "l", " ", "m", "o", "m", "e", "n", "t", "o", " ", "e", "n",
        " ", "q", "u", "e", " ", "t", "u", " ", "c", "u", "e", "r", "p",
        "o", " ", "r", "e", "p", "a", "r", "a", ",", " ", "t", "u", " ",
        "m", "e", "n", "t", "e", " ", "p", "r", "o", "c", "e", "s", "a",
        " ", "y", " ", "t", "u", " ", "a", "l", "m", "a", " ", "d", "e",
        "s", "c", "a", "n", "s", "a", "." >>,
     author |-> <<
        "W", "e", "l", "l", "n", "e", "s", "s", " ", "G", "u", "r", "u" >>,
     category |-> "holistic", time_of_day |-> "night", mood |-> "peaceful"],
    [id |-> 6,
     quote |-> <<
        "C", "a", "d", "a", " ", "a", "m", "a", "n", "e", "c", "e", "r",
        " ", "e", "s", " ", "u", "n", "a", " ", "n", "u", "e", "v", "a",
        " ", "p", "a_acute", "g", "i", "n", "a", " ", "e", "n", " ", "b",
        "l", "a", "n", "c", "o", ".", " ", "inv_question", "C", "o_acute",
        "m", "o", " ", "l", "a", " ", "v", "a", "s", " ", "a", " ", "e",
        "s", "c", "r", "i", "b", "i", "r", " ", "h", "o", "y", "?" >>,
     author |-> <<
        "M", "o", "r", "n", "i", "n", "g", " ", "W", "i", "s", "d", "o",
        "m" >>,
     category |-> "motivation", time_of_day |-> "morning", mood |-> "motivational"],
    [id |-> 7,
     quote |-> <<
        "U", "n", " ", "b", "u", "e", "n", " ", "d", "i_acute", "a", " ",
        "c", "o", "m", "i", "e", "n", "z", "a", " ", "c", "o", "n", " ",
        "u", "n", "a", " ", "n", "o", "c", "h", "e", " ", "d", "e", " ",
        "s", "u", "e", "n_tilde", "o", " ", "r", "e", "p", "a", "r", "a",
        "d", "o", "r", ".", " ", "T", "u", " ", "c", "u", "e", "r", "p",
        "o", " ", "t", "e", " ", "l", "o", " ", "a", "g", "r", "a", "d",
        "e", "c", "e", "." >>,
     author |-> <<
        "H", "e", "a", "l", "t", "h", " ", "C", "o", "a", "c", "h" >>,
     category |-> "wellness", time_of_day |-> "morning", mood |-> "calm"],
    [id |-> 8,
     quote |-> <<
        "E", "l", " ", "s", "o", "l", " ", "s", "a", "l", "e", " ", "p",
        "a", "r", "a", " ", "r", "e", "c", "o", "r", "d", "a", "r", "t",
        "e", " ", "q", "u", "e", " ", "c", "a", "d", "a", " ", "d",
        "i_acute", "a", " ", "e", "s", " ", "u", "n", "a", " ", "n", "u",
        "e", "v", "a", " ", "o", "p", "o", "r", "t", "u", "n", "i", "d",
        "a", "d", " ", "d", "e", " ", "b", "r", "i", "l", "l", "a", "r",
        "." >>,
     author |-> <<
        "S", "u", "n", " ", "W", "i", "s", "d", "o", "m" >>,
     category |-> "inspiration", time_of_day |-> "morning", mood |-> "motivational"],
    [id |-> 9,
     quote |-> <<
        "A", " ", "m", "e", "d", "i", "d", "a", " ", "q", "u", "e", " ",
        "e", "l", " ", "d", "i_acute", "a", " ", "l", "l", "e", "g", "a",
        " ", "a", " ", "s", "u", " ", "f", "i", "n", ",", " ", "p", "e",
        "r", "m", "i", "t", "e", " ", "q", "u", "e", " ", "t", "u", " ",
        "m", "e", "n", "t", "e", " ", "t", "a", "m", "b", "i", "e_acute",
        "n", " ", "e", "n", "c", "u", "e", "n", "t", "r", "e", " ", "p",
        "a", "z", "." >>,
     author |-> <<
        "E", "v", "e", "n", "i", "n", "g", " ", "R", "e", "f", "l", "e",
        "c", "t", "i", "o", "n" >>,
     category |-> "mindfulness", time_of_day |-> "evening", mood |-> "reflective"],
    [id |-> 10,
     quote |-> <<
        "U", "n", "a", " ", "h", "a", "b", "i", "t", "a", "c", "i",
        "o_acute", "n", " ", "o", "s", "c", "u", "r", "a", ",", " ", "f",
        "r", "e", "s", "c", "a", " ", "y", " ", "s", "i", "l", "e", "n",
        "c", "i", "o", "s", "a", " ", "e", "s", " ", "e", "l", " ", "t",
        "e", "m", "p", "l", "o", " ", "s", "a", "g", "r", "a", "d", "o",
        " ", "d", "e", "l", " ", "s", "u", "e", "n_tilde", "o", " ", "r",
        "e", "p", "a", "r", "a", "d", "o", "r", "." >>,
     author |-> <<
        "S", "l", "e", "e", "p", " ", "E", "n", "v", "i", "r", "o", "n",
        "m", "e", "n", "t", " ", "E", "x", "p", "e", "r", "t" >>,
     category |-> "sleep_hygiene", time_of_day |-> "evening", mood |-> "educational"],
    [id |-> 11,
     quote |-> <<
        "L", "a", " ", "c", "a", "f", "e", "i_acute", "n", "a", " ", "p",
        "e", "r", "m", "a", "n", "e", "c", "e", " ", "e", "n", " ", "t",
        "u", " ", "s", "i", "s", "t", "e", "m", "a", " ", "h", "a", "s",
        "t", "a", " ", "8", " ", "h", "o", "r", "a", "s", ".", " ", "P",
        "l", "a", "n", "i", "f", "i", "c", "a", " ", "t", "u", " ",
        "u_acute", "l", "t", "i", "m", "a", " ", "t", "a", "z", "a", " ",
        "s", "a", "b", "i", "a", "m", "e", "n", "t", "e", "." >>,
     author |-> <<
        "S", "l", "e", "e", "p", " ", "S", "c", "i", "e", "n", "c", "e" >>,
     category |-> "sleep_hygiene", time_of_day |-> "evening", mood |-> "educational"],
    [id |-> 12,
     quote |-> <<
        "T", "u", " ", "c", "a", "m", "a", " ", "e", "s", " ", "s", "o",
        "l", "o", " ", "p", "a", "r", "a", " ", "d", "o", "r", "m", "i",
        "r", " ", "y", " ", "r", "e", "l", "a", "j", "a", "r", "t", "e",
        ".", " ", "M", "a", "n", "t", "e", "n", "l", "a", " ", "c", "o",
        "m", "o", " ", "u", "n", " ", "s", "a", "n", "t", "u", "a", "r",
        "i", "o", " ", "d", "e", " ", "d", "e", "s", "c", "a", "n", "s",
        "o", "." >>,
     author |-> <<
        "S", "l", "e", "e", "p", " ", "H", "y", "g", "i", "e", "n", "e",
        " ", "P", "r", "o" >>,
     category |-> "sleep_hygiene", time_of_day |-> "evening", mood |-> "motivational"],
    [id |-> 13,
     quote |-> <<
        "R", "e", "s", "p", "i", "r", "a", "r", " ", "p", "r", "o", "f",
        "u", "n", "d", "a", "m", "e", "n", "t", "e", " ", "p", "o", "r",
        " ", "4", " ", "s", "e", "g", "u", "n", "d", "o", "s", ",", " ",
        "m", "a", "n", "t", "e", "n", "e", "r", " ", "p", "o", "r", " ",
        "7", ",", " ", "e", "x", "h", "a", "l", "a", "r", " ", "p", "o",
        "r", " ", "8", ".", " ", "L", "a", " ", "t", "e_acute", "c", "n",
        "i", "c", "a", " ", "4", "-", "7", "-", "8", " ", "p", "a", "r",
        "a", " ", "e", "l", " ", "s", "u", "e", "n_tilde", "o", "." >>,
     author |-> <<
        "D", "r", ".", " ", "A", "n", "d", "r", "e", "w", " ", "W", "e",
        "i", "l" >>,
     category |-> "techniques", time_of_day |-> "night", mood |-> "calm"],
    [id |-> 14,
     quote |-> <<
        "L", "a", " ", "l", "u", "z", " ", "a", "z", "u", "l", " ", "d",
        "e", " ", "l", "a", "s", " ", "p", "a", "n", "t", "a", "l", "l",
        "a", "s", " ", "c", "o", "n", "f", "u", "n", "d", "e", " ", "a",
        " ", "t", "u", " ", "c", "e", "r", "e", "b", "r", "o", ".", " ",
        "D", "a", "l", "e", " ", "u", "n", "a", " ", "h", "o", "r", "a",
        " ", "d", "e", " ", "d", "e", "s", "c", "a", "n", "s", "o", " ",
        "a", "n", "t", "e", "s", " ", "d", "e", " ", "d", "o", "r", "m",
        "i", "r", "." >>,
     author |-> <<
        "C", "i", "r", "c", "a", "d", "i", "a", "n", " ", "R", "h", "y",
        "t", "h", "m", " ", "E", "x", "p", "e", "r", "t" >>,
     category |-> "sleep_hygiene", time_of_day |-> "evening", mood |-> "educational"],
    [id |-> 15,
     quote |-> <<
        "D", "o", "r", "m", "i", "r", " ", "n", "o", " ", "e", "s", " ",
        "t", "i", "e", "m", "p", "o", " ", "p", "e", "r", "d", "i", "d",
        "o", ",", " ", "e", "s", " ", "i", "n", "v", "e", "r", "s", "i",
        "o_acute", "n", " ", "e", "n", " ", "t", "u", " ", "s", "a", "l",
        "u", "d", ",", " ", "p", "r", "o", "d", "u", "c", "t", "i", "v",
        "i", "d", "a", "d", " ", "y", " ", "f", "e", "l", "i", "c", "i",
        "d", "a", "d", " ", "d", "e", "l", " ", "m", "a", "n_tilde", "a",
        "n", "a", "." >>,
     author |-> <<
        "P", "r", "o", "d", "u", "c", "t", "i", "v", "i", "t", "y", " ",
        "C", "o", "a", "c", "h" >>,
     category |-> "motivation", time_of_day |-> "night", mood |-> "motivational"] >>

\* the characters of the strings that are searched or searched for
Chars(s) ==
    CASE s = "sleep_hygiene" -> << "s", "l", "e", "e", "p", "_", "h", "y", "g", "i", "e", "n", "e" >>
      [] s = "mindfulness" -> << "m", "i", "n", "d", "f", "u", "l", "n", "e", "s", "s" >>
      [] s = "science" -> << "s", "c", "i", "e", "n", "c", "e" >>
      [] s = "holistic" -> << "h", "o", "l", "i", "s", "t", "i", "c" >>
      [] s = "motivation" -> << "m", "o", "t", "i", "v", "a", "t", "i", "o", "n" >>
      [] s = "wellness" -> << "w", "e", "l", "l", "n", "e", "s", "s" >>
      [] s = "inspiration" -> << "i", "n", "s", "p", "i", "r", "a", "t", "i", "o", "n" >>
      [] s = "techniques" -> << "t", "e", "c", "h", "n", "i", "q", "u", "e", "s" >>
      [] s = "sleep" -> << "s", "l", "e", "e", "p" >>
      [] s = "SLEEP" -> << "S", "L", "E", "E", "P" >>
      [] s = "Coach" -> << "C", "o", "a", "c", "h" >>
      [] s = "dr." -> << "d", "r", "." >>
      [] s = "noche" -> << "n", "o", "c", "h", "e" >>
      [] s = "paz" -> << "p", "a", "z" >>
      [] s = "zzz" -> << "z", "z", "z" >>
      [] s = "" -> << >>

UpperChars ==
    << "A", "B", "C", "D", "E", "F", "G", "H", "I", "J", "K", "L", "M",
       "N", "O", "P", "Q", "R", "S", "T", "U", "V", "W", "X", "Y", "Z",
       "A_acute", "E_acute", "I_acute", "O_acute", "U_acute", "N_tilde" >>

LowerChars ==
    << "a", "b", "c", "d", "e", "f", "g", "h", "i", "j", "k", "l", "m",
       "n", "o", "p", "q", "r", "s", "t", "u", "v", "w", "x", "y", "z",
       "a_acute", "e_acute", "i_acute", "o_acute", "u_acute", "n_tilde" >>

\* str.lower()
lower(s) ==
    [i \in 1..Len(s) |->
        IF \E j \in 1..Len(UpperChars) : UpperChars[j] = s[i]
        THEN LowerChars[CHOOSE j \in 1..Len(UpperChars) : UpperChars[j] = s[i]]
        ELSE s[i]]

\* `part in whole` of two str
Contains(part, whole) ==
    \E i \in 0..(Len(whole) - Len(part)) :
        SubSeq(whole, i + 1, i + Len(part)) = part

\* xs[:n]; a negative n counts from the end
Slice(xs, n) ==
    IF n >= 0 THEN SubSeq(xs, 1, IF n < Len(xs) THEN n ELSE Len(xs))
    ELSE SubSeq(xs, 1, IF Len(xs) + n > 0 THEN Len(xs) + n ELSE 0)

\* the lower-cased texts of the corpus, record by record
CorpusLower ==
    [i \in 1..Len(Corpus) |->
        [quote |-> lower(Corpus[i].quote),
         author |-> lower(Corpus[i].author),
         category |-> lower(Chars(Corpus[i].category))]]

\* the elements of a sequence
Range(xs) == {xs[i] : i \in 1..Len(xs)}

Ids(quotes) == [i \in 1..Len(quotes) |-> quotes[i].id]

\* an optional value is there
Present(opt) == opt # None

\* JSON values handed to the provider: a type tag and the value
JStr(s) == [t |-> "str", v |-> s]
JInt(n) == [t |-> "int", v |-> n]
JBool(b) == [t |-> "bool", v |-> b]
JNull == [t |-> "null", v |-> 0]
JList(xs) == [t |-> "list", v |-> xs]

\* truth value of a JSON value in an `if`
JTruthy(j) ==
    IF j.t = "bool" THEN j.v
    ELSE IF j.t = "int" THEN j.v # 0
    ELSE IF j.t = "null" THEN FALSE
    ELSE IF j.t = "list" THEN j.v # <<>>
    ELSE j.v # ""

\* getattr(q, key) == value: a str field equals only a str of the same text
FieldEquals(field, value) == value.t = "str" /\ value.v = field

\* SleepQuotesDatabase.search_quotes: the matching records in corpus order,
\* cut to five
search_quotes(query) ==
    LET query_lower == lower(Chars(query))
        Matches(q) ==
            \/ Contains(query_lower, CorpusLower[q.id].quote)
            \/ Contains(query_lower, CorpusLower[q.id].author)
            \/ Contains(query_lower, CorpusLower[q.id].category)
        matching_quotes == SelectSeq(Corpus, Matches)
    IN Slice(matching_quotes, 5)

\* variant: only the category filter is applied
FilteredCategoryOnly(filters) ==
    SelectSeq(Corpus, LAMBDA q :
        Present(filters.category) => FieldEquals(q.category, filters.category[1]))

\* lines 183-187 of get_random_quote: the loop over the filters; a filter is
\* an optional JSON value, the keys outside the three names are skipped
Filtered(filters) ==
    SelectSeq(Corpus, LAMBDA q :
        /\ Present(filters.category) => FieldEquals(q.category, filters.category[1])
        /\ Present(filters.time_of_day)
              => FieldEquals(q.time_of_day, filters.time_of_day[1])
        /\ Present(filters.mood) => FieldEquals(q.mood, filters.mood[1]))

\* get_random_quote: the records random.choice draws from
get_random_quote(filters) ==
    LET filtered_quotes == Filtered(filters)
    IN IF filtered_quotes = <<>> THEN Corpus ELSE filtered_quotes

\* the hours datetime.now().hour can give
Hours == 0..23

\* variant: the hour 18 still counts as day
time_filter_day_until_18(current_hour) ==
    IF 6 <= current_hour /\ current_hour <= 18 THEN "morning"
    ELSE IF 18 <= current_hour /\ current_hour < 22 THEN "evening"
    ELSE "night"

\* lines 198-203 of get_quote_by_time
time_filter(current_hour) ==
    IF 6 <= current_hour /\ current_hour < 18 THEN "morning"
    ELSE IF 18 <= current_hour /\ current_hour < 22 THEN "evening"
    ELSE "night"

NoFilters == [category |-> None, time_of_day |-> None, mood |-> None, author |-> None]

\* get_quote_by_time when datetime.now().hour is current_hour: the records
\* it can return
quote_by_time_at(current_hour) ==
    Range(get_random_quote(
        [NoFilters EXCEPT !.time_of_day = Some(JStr(time_filter(current_hour)))]))

\* get_quote_by_time: the records it can return, over the hours of the day
get_quote_by_time == UNION { quote_by_time_at(h) : h \in Hours }

\* get_sleep_tip: the records it can return
get_sleep_tip ==
    Range(get_random_quote([NoFilters EXCEPT !.category = Some(JStr("sleep_hygiene"))]))

(***************************************************************************)
(* Inputs of the provider's operations.                                    *)
(***************************************************************************)
\* search strings: matches in authors and categories (more than five),
\* upper case, authors only, quote texts only, no match
Queries == {"sleep", "SLEEP", "Coach", "dr.", "noche", "paz", "zzz"}

\* the limit parameter of GET /api/search: absent, or an int
Limits == {None} \cup {Some(n) : n \in {-1, 0, 1, 3, 5, 6, MaxLimit}}

\* keyword arguments of get_random_quote: names it filters by, present or
\* not, with values that occur in the corpus and values that do not, and a
\* name it skips
FilterArgs ==
    [category : {None, Some(JStr("sleep_hygiene")), Some(JStr("mindfulness")),
                 Some(JStr("nope")), Some(JInt(3))},
     time_of_day : {None, Some(JStr("night")), Some(JStr("morning"))},
     mood : {None, Some(JStr("calm")), Some(JStr("peaceful"))},
     author : {None, Some(JStr("Dalai Lama"))}]

\* the handlers read the corpus and write nothing: every request meets the
\* same provider, and a behaviour of the provider is one request
Fresh == srv_op = "none"

(***************************************************************************)
(* GET /api/search/{query}                                                 *)
(***************************************************************************)
SearchQuotesApi(query, limit) ==
    LET results == Slice(search_quotes(query),
                         IF limit = None THEN 5 ELSE limit[1])
    IN
    /\ Fresh
    /\ srv_op' = "search_quotes_api"
    /\ srv_args' = [query |-> query, limit |-> limit]
    /\ srv_reply' = [status |-> 200, results |-> Ids(results),
                     total_found |-> Len(results)]
    /\ UNCHANGED << client_vars, conc_vars >>

(***************************************************************************)
(* SleepQuotesDatabase.get_random_quote; q is the record that               *)
(* random.choice draws                                                     *)
(***************************************************************************)
GetRandomQuote(filters, q) ==
    /\ Fresh
    /\ q \in Range(get_random_quote(filters))
    /\ srv_op' = "get_random_quote"
    /\ srv_args' = filters
    /\ srv_reply' = [raised |-> FALSE, quote |-> q.id]
    /\ UNCHANGED << client_vars, conc_vars >>

(***************************************************************************)
(* POST /mcp                                                               *)
(***************************************************************************)
\* request bodies: JSON objects with and without "method" and "params",
\* bodies that are not an object, and no body
McpBodies ==
    [shape : {"object"},
     method : {None, Some(JStr("get_inspirational_quote")),
               Some(JStr("get_sleep_hygiene_tip")),
               Some(JStr("search_sleep_quotes")), Some(JStr("")),
               Some(JInt(7)), Some(JNull), Some(JList(<<>>))},
     params : {None, Some(JList(<<>>))}]
    \cup [shape : {"array", "string", "absent"}, method : {None}, params : {None}]

\* line 669: the parameter `request: Dict[str, Any]` is the request body;
\* the framework hands the handler a body that is a JSON object
BodyAccepted(request) == request.shape = "object"

\* variant: no default stands in for a missing "method"
McpMethodNoDefault(request) ==
    IF Present(request.method) THEN request.method[1] ELSE JNull

\* line 673: request.get("method", "get_inspirational_quote")
McpMethod(request) ==
    IF Present(request.method) THEN request.method[1]
    ELSE JStr("get_inspirational_quote")

McpReply(status, body, quote) == [status |-> status, body |-> body, quote |-> quote]

\* the answers the endpoint can give to a request
mcp_endpoint(request) ==
    IF ~BodyAccepted(request) THEN { McpReply(422, "detail", 0) }
    ELSE LET method == McpMethod(request) IN
         IF FieldEquals("get_inspirational_quote", method)
         THEN { McpReply(200, "result", q.id) : q \in Range(get_random_quote(NoFilters)) }
         ELSE IF FieldEquals("get_sleep_hygiene_tip", method)
         THEN { McpReply(200, "result", q.id) : q \in get_sleep_tip }
         ELSE { McpReply(200, "error", 0) }

McpEndpoint(request) ==
    /\ Fresh
    /\ srv_op' = "mcp_endpoint"
    /\ srv_args' = request
    /\ srv_reply' \in mcp_endpoint(request)
    /\ UNCHANGED << client_vars, conc_vars >>

(***************************************************************************)
(* call_tool                                                               *)
(***************************************************************************)
\* the names of list_tools
ToolNames ==
    {"get_inspirational_quote", "get_sleep_hygiene_tip", "search_sleep_quotes",
     "get_bedtime_routine_reminder", "get_daily_sleep_wisdom"}

ReminderTypes == {"preparation", "relaxation", "environment", "mindfulness"}

NoArgs ==
    [category |-> None, mood |-> None, time_based |-> None, query |-> None,
     user_bedtime |-> None, reminder_type |-> None, include_tip |-> None]

\* argument maps: for each tool, maps its schema allows and maps it does not
ToolArgs ==
    { [NoArgs EXCEPT !.category = c, !.mood = m, !.time_based = t] :
        c \in {None, Some(JStr("sleep_hygiene")), Some(JStr("nope")), Some(JInt(3))},
        m \in {None, Some(JStr("calm"))},
        t \in {None, Some(JBool(TRUE)), Some(JStr("yes"))} }
    \cup { [NoArgs EXCEPT !.query = x] :
             x \in {Some(JInt(5)), Some(JNull)}
                   \cup {Some(JStr(s)) : s \in Queries \cup {""}} }
    \cup { [NoArgs EXCEPT !.user_bedtime = b, !.reminder_type = r] :
             b \in {None, Some(JStr("23:30")), Some(JStr("99:99"))},
             r \in {None, Some(JStr("relaxation")), Some(JStr("mindfulness")),
                    Some(JStr("party")), Some(JList(<<>>))} }
    \cup { [NoArgs EXCEPT !.include_tip = i] :
             i \in {Some(JBool(TRUE)), Some(JBool(FALSE)), Some(JStr("no"))} }

\* strings of the pattern ^([0-1]?[0-9]|2[0-3]):[0-5][0-9]$ of user_bedtime
BedtimePattern ==
    { h \o ":" \o m : h \in {"9", "09", "22", "23"}, m \in {"00", "30"} }

\* list_tools, lines 279-362: the argument maps the schema of a tool allows
SchemaAllows(name, a) ==
    LET IsStr(o, allowed) == ~Present(o) \/ (o[1].t = "str" /\ o[1].v \in allowed)
        IsBool(o) == ~Present(o) \/ o[1].t = "bool"
    IN
    IF name = "get_inspirational_quote"
    THEN /\ IsStr(a.category, {"sleep_hygiene", "mindfulness", "motivation",
                               "science", "holistic", "wellness", "inspiration",
                               "techniques"})
         /\ IsStr(a.mood, {"calm", "motivational", "peaceful", "reflective",
                           "educational"})
         /\ IsBool(a.time_based)
    ELSE IF name = "search_sleep_quotes"
    THEN Present(a.query) /\ a.query[1].t = "str"
    ELSE IF name = "get_bedtime_routine_reminder"
    THEN /\ IsStr(a.user_bedtime, BedtimePattern)
         /\ IsStr(a.reminder_type, ReminderTypes)
    ELSE IF name = "get_daily_sleep_wisdom"
    THEN IsBool(a.include_tip)
    ELSE TRUE

\* TextContent(type="text", text=...): the text is identified by the
\* template it is rendered from, the records it shows and, for a reminder,
\* the kind of reminder
TextItem(template, ids, detail) ==
    [type |-> "text", text |-> [template |-> template, ids |-> ids, detail |-> detail]]

\* what call_tool hands back: a list of items, or an exception
Returned(content) == [raised |-> FALSE, content |-> content]
RaisedOut == [raised |-> TRUE, content |-> <<>>]

\* the exception raised inside the try of the branch of tool `name` (""
\* when none): arguments["query"], query.lower(), reminders.get(unhashable)
ToolRaises(name, arguments) ==
    IF name = "search_sleep_quotes"
    THEN IF ~Present(arguments.query) THEN "KeyError"
         ELSE IF arguments.query[1].t # "str" THEN "AttributeError"
         ELSE ""
    ELSE IF name = "get_bedtime_routine_reminder"
    THEN IF Present(arguments.reminder_type) /\ arguments.reminder_type[1].t = "list"
         THEN "TypeError" ELSE ""
    ELSE ""

\* variant: `except KeyError`
ToolCaughtKeyErrorOnly(e) == e = "KeyError"

\* `except Exception as e` of every branch
ToolCaught(e) == TRUE

\* the texts of a branch when its try block raises nothing
ToolTexts(name, arguments) ==
    IF name = "get_inspirational_quote"
    THEN LET filters == [NoFilters EXCEPT !.category = arguments.category,
                                          !.mood = arguments.mood]
             time_based == IF Present(arguments.time_based)
                           THEN JTruthy(arguments.time_based[1]) ELSE FALSE
             quotes == IF time_based THEN get_quote_by_time
                       ELSE Range(get_random_quote(filters))
         IN { TextItem("quote", << q.id >>, "") : q \in quotes }
    ELSE IF name = "get_sleep_hygiene_tip"
    THEN { TextItem("tip", << q.id >>, "") : q \in get_sleep_tip }
    ELSE IF name = "search_sleep_quotes"
    THEN LET results == search_quotes(arguments.query[1].v)
         IN IF results = <<>> THEN { TextItem("search_none", <<>>, "") }
            ELSE { TextItem("search_results", Ids(results), "") }
    ELSE IF name = "get_bedtime_routine_reminder"
    THEN LET reminder_type == IF Present(arguments.reminder_type)
                              THEN arguments.reminder_type[1]
                              ELSE JStr("preparation")
         IN { TextItem("reminder", <<>>,
                       IF reminder_type.t = "str" /\ reminder_type.v \in ReminderTypes
                       THEN reminder_type.v ELSE "preparation") }
    ELSE LET include_tip == IF Present(arguments.include_tip)
                            THEN JTruthy(arguments.include_tip[1]) ELSE TRUE
         IN IF include_tip
            THEN { TextItem("wisdom", << q.id, tip.id >>, "") :
                     q \in get_quote_by_time, tip \in get_sleep_tip }
            ELSE { TextItem("wisdom", << q.id >>, "") : q \in get_quote_by_time }

\* lines 549-550
UnknownTool(name) == << TextItem("unknown_tool", <<>>, name) >>

\* the values call_tool can hand back
call_tool(name, arguments) ==
    IF name \notin ToolNames THEN { Returned(UnknownTool(name)) }
    ELSE LET e == ToolRaises(name, arguments) IN
         IF e = "" THEN { Returned(<< item >>) : item \in ToolTexts(name, arguments) }
         ELSE IF ToolCaught(e) THEN { Returned(<< TextItem("error", <<>>, name) >>) }
         ELSE { RaisedOut }

CallTool(name, arguments) ==
    /\ Fresh
    /\ srv_op' = "call_tool"
    /\ srv_args' = [name |-> name, arguments |-> arguments]
    /\ srv_reply' \in call_tool(name, arguments)
    /\ UNCHANGED << client_vars, conc_vars >>

(***************************************************************************)
(* GET /api/quote                                                          *)
(***************************************************************************)
\* query parameters: category and mood are absent or strings
QuoteApiArgs ==
    [category : {None, Some("sleep_hygiene"), Some("motivation"), Some("")},
     mood : {None, Some("calm")},
     time_based : BOOLEAN]

\* the records the endpoint can answer with when the clock shows current_hour
get_quote_api(a, current_hour) ==
    LET filters == [NoFilters EXCEPT
                      !.category = IF Truthy(a.category)
                                   THEN Some(JStr(a.category[1])) ELSE None,
                      !.mood = IF Truthy(a.mood)
                               THEN Some(JStr(a.mood[1])) ELSE None]
    IN IF a.time_based THEN quote_by_time_at(current_hour)
       ELSE Range(get_random_quote(filters))

\* the clock is read only by get_quote_by_time
GetQuoteApi(a, current_hour) ==
    /\ Fresh
    /\ a.time_based \/ current_hour = 0
    /\ srv_op' = "get_quote_api"
    /\ srv_args' = [category |-> a.category, mood |-> a.mood,
                    time_based |-> a.time_based, hour |-> current_hour]
    /\ \E q \in get_quote_api(a, current_hour) :
          srv_reply' = [status |-> 200, quote |-> q.id]
    /\ UNCHANGED << client_vars, conc_vars >>

NextServer ==
    \/ \E query \in Queries, limit \in Limits : SearchQuotesApi(query, limit)
    \/ \E a \in QuoteApiArgs, h \in Hours : GetQuoteApi(a, h)
    \/ \E filters \in FilterArgs, q \in Range(Corpus) : GetRandomQuote(filters, q)
    \/ \E request \in McpBodies : McpEndpoint(request)
    \/ \E name \in ToolNames \cup {"delete_quotes", ""}, arguments \in ToolArgs :
          CallTool(name, arguments)

SpecServer == Init /\ [][NextServer]_vars

(***************************************************************************)
(* Vocabulary of the properties.                                           *)
(***************************************************************************)
QueryKinds == {"quote", "tip", "search", "wisdom"}

CachedKinds == {"quote", "tip", "wisdom"}

\* the calendar day of instant t
Day(t) == t \div 86400

\* a discovery pass has just returned
PassEnded == op = "probe" /\ pc = "idle"

\* the request of the call failed: transport exception or timeout, non-200
\* status, body that is not JSON, body that lacks an expected member
IsFailure(r) == r.exc # "" \/ r.status # 200 \/ ~r.json \/ ~r.complete

\* the step is a call of one of the four query kinds that sent its request
\* to the bound endpoint and saw it fail
FailedQueryStep ==
    op' \in QueryKinds /\ sent' # <<>> /\ IsFailure(resp')

(***************************************************************************)
(* C1: when a discovery pass ends and some candidate answered its probe    *)
(* with 200 "healthy", the client is connected and bound to the first      *)
(* candidate that did, however the earlier ones failed; a pass in which no *)
(* candidate answered healthy has sent a probe to every candidate.         *)
(***************************************************************************)
C1_BindsFirstHealthy ==
    PassEnded =>
        /\ firstHealthy # "" => is_connected /\ server_url = firstHealthy
        /\ firstHealthy = "" /\ session = "open" =>
               \A i \in 1..Len(cands) : probed[cands[i]] >= 1

\* discovery skipped four failing candidates and bound to the last one
C1_Witness ==
    /\ PassEnded
    /\ idx = 5
    /\ firstHealthy = fallback_urls[4]
    /\ server_url = fallback_urls[4]
    /\ is_connected

(***************************************************************************)
(* C2: within one discovery pass every URL receives at most one health     *)
(* probe.                                                                  *)
(***************************************************************************)
C2_AtMostOneProbePerUrl == \A u \in Urls : probed[u] <= 1

(***************************************************************************)
(* C3: a pass in which no candidate answered healthy ends with             *)
(* is_connected = false, and a call of any of the four query kinds made    *)
(* while is_connected is false returns that kind's offline payload and     *)
(* sends no request.                                                       *)
(***************************************************************************)
C3_OfflineWhenDisconnected ==
    [][ /\ (op' = "probe" /\ pc' = "idle" /\ firstHealthy' = "")
            => ~is_connected'
        /\ (op' \in QueryKinds /\ ~is_connected)
            => /\ result' = get_offline_response(op')
               /\ sent' = <<>>
               /\ ~raised'
               /\ ~is_connected' ]_vars

\* a search answered offline on an opened session whose discovery failed
C3_Witness ==
    /\ op = "search"
    /\ session = "open"
    /\ ~is_connected
    /\ sent = <<>>
    /\ result = get_offline_response("search")

(***************************************************************************)
(* C4 as stated: for each of the four query kinds, a successful query      *)
(* followed at once (hence within the TTL window) by the identical query,  *)
(* while connected, returns the first result again and sends no request.   *)
(***************************************************************************)
C4_Original ==
    [][ (/\ op \in QueryKinds
         /\ result.success
         /\ is_connected
         /\ op' = op
         /\ arg' = arg)
        => (result' = result /\ sent' = <<>>) ]_vars

(***************************************************************************)
(* C4 amended: for quote, tip and daily-wisdom, a result fetched from the  *)
(* server is stored under the key of the call with the instant of the      *)
(* fetch; while connected, a call whose key (kind, parameters and, for     *)
(* daily-wisdom, calendar day) has an entry younger than 300 s returns     *)
(* that entry's payload, sends nothing and leaves the cache alone; an      *)
(* entry changes only by such a fetch for its own key.  Search is never    *)
(* cached: every search made while connected sends a request.              *)
(***************************************************************************)
C4_CacheIdempotence ==
    [][ /\ (op' \in CachedKinds /\ sent' # <<>> /\ result'.success)
            => /\ arg' \in DOMAIN cache'
               /\ cache'[arg'] = [data |-> result', timestamp |-> now]
        /\ (/\ op' \in CachedKinds
            /\ is_connected
            /\ arg' \in DOMAIN cache
            /\ now - cache[arg'].timestamp < DefaultTtl)
            => /\ result' = cache[arg'].data
               /\ sent' = <<>>
               /\ cache' = cache
        /\ \A k \in DOMAIN cache :
              /\ k \in DOMAIN cache'
              /\ cache'[k] # cache[k]
                  => (op' \in CachedKinds /\ arg' = k /\ sent' # <<>>)
        /\ (op' = "search" /\ is_connected) => sent' # <<>> ]_vars

\* a quote fetched at the start is returned from the cache 150 s later
C4_Witness ==
    /\ op = "quote"
    /\ is_connected
    /\ sent = <<>>
    /\ result.success
    /\ result.ts = StartTime
    /\ now = StartTime + 150

C6_FailuresNeverCached ==
    [][ /\ FailedQueryStep => cache' = cache
        /\ \A k \in DOMAIN cache' :
              /\ cache'[k].data.success
              /\ cache'[k].data.source = "remote_server" ]_vars

\* a quote request answered 200 with an incomplete body, cache not empty
C6_Witness ==
    /\ op = "quote"
    /\ sent # <<>>
    /\ resp.status = 200 /\ resp.json /\ ~resp.complete
    /\ DOMAIN cache # {}
    /\ arg \notin DOMAIN cache

(***************************************************************************)
(* C7: no query raises to its caller; a call of one of the four query      *)
(* kinds whose request failed in any way returns that kind's offline       *)
(* payload, which has success = false.                                     *)
(***************************************************************************)
C7_NoExceptionEscapes ==
    /\ op \in QueryKinds \cup {"status"} => ~raised
    /\ (op \in QueryKinds /\ sent # <<>> /\ IsFailure(resp))
        => /\ result = get_offline_response(op)
           /\ ~result.success
           /\ result.source = "offline_fallback"

\* a daily-wisdom call whose body lacked a member, answered offline
C7_Witness ==
    /\ op = "wisdom"
    /\ resp.exc = "" /\ resp.status = 200 /\ resp.json /\ ~resp.complete
    /\ ~raised
    /\ result = get_offline_response("wisdom")

(***************************************************************************)
(* C8 as stated: a query whose request to the bound endpoint fails re-runs *)
(* endpoint discovery.                                                     *)
(***************************************************************************)
C8_Original == [][ FailedQueryStep => pc' = "probing" ]_vars

(***************************************************************************)
(* C8 amended: a query whose request to the bound endpoint fails does not  *)
(* re-run discovery: it has sent that one request and no health probe, it  *)
(* returns the kind's static fallback payload, and the endpoint stays      *)
(* bound (is_connected and server_url are unchanged).                      *)
(***************************************************************************)
C8_FailureReturnsFallbackStaysBound ==
    [][ FailedQueryStep
        => /\ pc' = "idle"
           /\ Len(sent') = 1
           /\ sent'[1].url = server_url
           /\ sent'[1].path # "/health"
           /\ result' = get_offline_response(op')
           /\ is_connected /\ is_connected'
           /\ server_url' = server_url ]_vars

\* a tip request that timed out, the client still bound
C8_Witness ==
    /\ op = "tip"
    /\ resp.exc = "TimeoutError"
    /\ result = get_offline_response("tip")
    /\ is_connected
    /\ pc = "idle"

(***************************************************************************)
(* C9: is_connected and server_url change only in a step of the discovery  *)
(* loop: every query (quote, tip, search, daily-wisdom, status), whatever  *)
(* its outcome, and every other step leave both unchanged.                 *)
(***************************************************************************)
C9_ConnectionChangesOnlyInDiscovery ==
    [][ op' # "probe" =>
           (is_connected' = is_connected /\ server_url' = server_url) ]_vars

\* a status request succeeded on a disconnected client, which stays so
C9_Witness ==
    /\ op = "status"
    /\ result.success
    /\ ~is_connected

(***************************************************************************)
(* C10 as stated: after a pass in which every candidate failed,            *)
(* is_connected is false and no endpoint is bound, the previous server_url *)
(* is not retained.                                                        *)
(***************************************************************************)
C10_Original ==
    (PassEnded /\ result = BoolResult(FALSE))
        => (~is_connected /\ server_url # cands[1])

(***************************************************************************)
(* C10 amended: after a pass in which every candidate failed,              *)
(* is_connected is false and test_connection returned False, and           *)
(* server_url still holds the value it had before the pass (the first      *)
(* candidate of the pass): nothing clears it.                              *)
(***************************************************************************)
C10_FailedPassKeepsServerUrl ==
    [][ (op' = "probe" /\ pc' = "idle" /\ firstHealthy' = "")
        => /\ ~is_connected'
           /\ result' = BoolResult(FALSE)
           /\ server_url' = server_url
           /\ server_url' = cands[1] ]_vars

\* a client once bound to the third fallback URL, after a failed pass
C10_Witness ==
    /\ PassEnded
    /\ result = BoolResult(FALSE)
    /\ ~is_connected
    /\ server_url = fallback_urls[3]

(***************************************************************************)
(* C11: a keyword search whose request was answered with status 200 and an *)
(* empty result list is a success and not a failure: the client returns    *)
(* success TRUE with source "remote_server", the empty list, and the "no   *)
(* matches" message, never the offline payload.                            *)
(***************************************************************************)
C11_EmptySearchIsSuccess ==
    (/\ op = "search"
     /\ sent # <<>>
     /\ ~IsFailure(resp)
     /\ resp.ids = <<>>)
    => /\ ~raised
       /\ result.success
       /\ result.source = "remote_server"
       /\ result.ids = <<>>
       /\ result.rendered = NoMatchesMessage
       /\ result # get_offline_response("search")

C11_Witness ==
    /\ op = "search"
    /\ is_connected
    /\ sent # <<>>
    /\ ~IsFailure(resp)
    /\ resp.ids = <<>>
    /\ result.success

(***************************************************************************)
(* C12: the daily-wisdom key depends on the calendar date: a daily-wisdom  *)
(* entry stored on another day never sits under a key of today, and a      *)
(* daily-wisdom query answered from the cache returns an entry stored on   *)
(* the day of the query, even when an entry of the day before is younger   *)
(* than the TTL.                                                           *)
(***************************************************************************)
C12_WisdomKeyPerDay ==
    [][ /\ \A k \in DOMAIN cache :
             (cache[k].data.kind = "wisdom" /\ Day(cache[k].timestamp) # Day(now))
             => \A i \in BOOLEAN : k # WisdomKey(now, i)
        /\ (op' = "wisdom" /\ is_connected /\ sent' = <<>>)
           => /\ arg' \in DOMAIN cache
              /\ result' = cache[arg'].data
              /\ Day(cache[arg'].timestamp) = Day(now) ]_vars

\* a daily-wisdom query sent a request although the entry of the day
\* before, stored less than the TTL ago, is in the cache
C12_Witness ==
    /\ op = "wisdom"
    /\ sent # <<>>
    /\ result.success
    /\ \E k \in DOMAIN cache :
          /\ k # arg
          /\ cache[k].data.kind = "wisdom"
          /\ Day(cache[k].timestamp) # Day(now)
          /\ now - cache[k].timestamp < DefaultTtl

(***************************************************************************)
(* C13: a stored daily-wisdom result stays valid for 3600 s instead of     *)
(* 300 s: an identical daily-wisdom query made on the same calendar day    *)
(* between 300 s and 3600 s after the store is answered from the cache and *)
(* sends no request.                                                       *)
(***************************************************************************)
C13_WisdomValidForAnHour ==
    [][ (/\ op' = "wisdom"
         /\ is_connected
         /\ arg' \in DOMAIN cache
         /\ now - cache[arg'].timestamp >= DefaultTtl
         /\ now - cache[arg'].timestamp < WisdomTtl)
        => /\ sent' = <<>>
           /\ result' = cache[arg'].data ]_vars

(***************************************************************************)
(* C18: the offline fallback is a pure function of the kind: a call of     *)
(* _get_offline_response changes no client state (cache, is_connected,     *)
(* server_url, cache_ttl) and sends nothing; the payload is the hardcoded  *)
(* one of its kind, the same on every call and whatever the state and the  *)
(* clock, and for every kind, the unrecognized ones included, it has       *)
(* success FALSE and source "offline_fallback".                            *)
(***************************************************************************)
C18_OfflinePayloadOf(k) ==
    [success |-> FALSE, source |-> "offline_fallback",
     kind |-> IF k \in QueryKinds THEN k ELSE "default",
     ids |-> <<>>, rendered |-> 0, ts |-> 0]

C18_OfflineResponseIsPure ==
    [][ /\ op' = "offline"
           => /\ UNCHANGED << cache, is_connected, server_url, cache_ttl, session >>
              /\ sent' = <<>>
              /\ ~raised'
              /\ result' = C18_OfflinePayloadOf(arg')
              /\ ~result'.success
              /\ result'.source = "offline_fallback"
        /\ (op' = "offline" /\ op = "offline" /\ arg' = arg) => result' = result
        /\ (op' \in QueryKinds /\ result'.source = "offline_fallback")
           => result' = C18_OfflinePayloadOf(op') ]_vars

\* the catch-all payload was returned once the cache held an entry and the
\* clock had moved
C18_Witness ==
    /\ op = "offline"
    /\ arg \notin QueryKinds
    /\ result.kind = "default"
    /\ cache # << >>
    /\ is_connected
    /\ now > StartTime

(***************************************************************************)
(* C19: cache reads never modify the cache and nothing is evicted: no step *)
(* removes a key; the cache changes only by the store of a cached-kind     *)
(* call whose request succeeded, and then only under the key of that call; *)
(* a call answered from the cache, a call that looked up an expired or     *)
(* absent key and then failed, and every other operation leave keys,       *)
(* payloads and stored timestamps as they were, and raise nothing.         *)
(***************************************************************************)
C19_ReadsLeaveCacheAlone ==
    [][ /\ DOMAIN cache \subseteq DOMAIN cache'
        /\ cache' # cache
           => /\ op' \in CachedKinds
              /\ sent' # <<>>
              /\ result'.success
              /\ DOMAIN cache' = DOMAIN cache \cup {arg'}
              /\ cache'[arg'] = [data |-> result', timestamp |-> now]
              /\ \A k \in DOMAIN cache \ {arg'} : cache'[k] = cache[k]
        /\ (op' \in CachedKinds /\ ~result'.success)
           => (cache' = cache /\ ~raised')
        /\ (op' \in CachedKinds /\ is_connected /\ sent' = <<>>)
           => /\ cache' = cache
              /\ ~raised'
              /\ result' = cache[arg'].data ]_vars

\* an expired entry was looked up, the request that followed failed, and
\* the entry is still stored with its old timestamp
C19_Witness ==
    /\ op \in CachedKinds
    /\ sent # <<>>
    /\ IsFailure(resp)
    /\ arg \in DOMAIN cache
    /\ now - cache[arg].timestamp >= DefaultTtl

(***************************************************************************)
(* C20: a discovery pass is a sequential short-circuiting scan that always *)
(* terminates: while it runs nothing but its probes happens, the probes go *)
(* one at a time through the candidate list in list order, every probe     *)
(* either ends the pass or moves to the next candidate, the probe of the   *)
(* last candidate ends the pass, so the pass ends after at most            *)
(* Len(fallback_urls) + 1 probes whatever each probe's outcome, and the    *)
(* probe that is accepted is the last one of the pass.                     *)
(***************************************************************************)
C20_PassIsShortCircuitScan ==
    [][ pc = "probing"
        => /\ Len(cands) = Len(fallback_urls) + 1
           /\ idx \in 1..Len(cands)
           /\ op' = "probe"
           /\ session = "open"
              => sent' = << [url |-> cands[idx], path |-> "/health"] >>
           /\ \/ pc' = "idle" /\ idx' = idx
              \/ pc' = "probing" /\ idx' = idx + 1 /\ cands' = cands
           /\ idx = Len(cands) => pc' = "idle"
           /\ firstHealthy' # "" => pc' = "idle" ]_vars

\* a pass stopped at a candidate that is neither the first nor the last of
\* the list: the ones before it failed, the ones after it were not probed
C20_Witness ==
    /\ PassEnded
    /\ result = BoolResult(TRUE)
    /\ idx \in 2..(Len(cands) - 1)
    /\ firstHealthy = cands[idx]
    /\ \A i \in (idx + 1)..Len(cands) : probed[cands[i]] = 0

(***************************************************************************)
(* C14: provider search: for every query string and limit, GET /api/search *)
(* returns the records whose quote text, author or category contains the   *)
(* query case-insensitively, in corpus order, cut to the first `limit`     *)
(* matches (5 when no limit is given); every matching record is included   *)
(* as long as the cap is not reached, and total_found is at least 1        *)
(* whenever a record matches.                                              *)
(***************************************************************************)
C14_AllMatches(query) ==
    SelectSeq(Corpus, LAMBDA q :
        \/ Contains(lower(Chars(query)), lower(q.quote))
        \/ Contains(lower(Chars(query)), lower(q.author))
        \/ Contains(lower(Chars(query)), lower(Chars(q.category))))

C14_SearchReturnsFirstLimitMatches ==
    srv_op = "search_quotes_api"
    => LET matches == Ids(C14_AllMatches(srv_args.query))
           cap == IF srv_args.limit = None THEN 5 ELSE srv_args.limit[1]
       IN /\ srv_reply.status = 200
          /\ srv_reply.results =
                SubSeq(matches, 1, IF cap < Len(matches) THEN cap ELSE Len(matches))
          /\ matches # <<>> => srv_reply.total_found >= 1

(***************************************************************************)
(* C15: get_random_quote never errors and returns a record of the corpus;  *)
(* when at least one record satisfies all the supplied category,           *)
(* time_of_day and mood filters the returned record satisfies all of them, *)
(* and when none does it is drawn from the whole corpus.                   *)
(***************************************************************************)
C15_Satisfying(filters) ==
    {i \in 1..Len(Corpus) :
        \A key \in {"category", "time_of_day", "mood"} :
            Present(filters[key])
            => (filters[key][1].t = "str" /\ filters[key][1].v = Corpus[i][key])}

C15_RandomQuoteHonoursFilters ==
    srv_op = "get_random_quote"
    => /\ ~srv_reply.raised
       /\ srv_reply.quote \in 1..Len(Corpus)
       /\ C15_Satisfying(srv_args) # {} => srv_reply.quote \in C15_Satisfying(srv_args)

\* two filters were supplied, some record satisfies both, and a record
\* satisfies the first without satisfying the second
C15_Witness ==
    /\ srv_op = "get_random_quote"
    /\ Present(srv_args.category)
    /\ Present(srv_args.mood)
    /\ C15_Satisfying(srv_args) # {}
    /\ C15_Satisfying([srv_args EXCEPT !.mood = None, !.time_of_day = None])
          # C15_Satisfying(srv_args)
    /\ srv_reply.quote \in C15_Satisfying(srv_args)

\* no record satisfies the filters and the record comes from the corpus
C15_WitnessFallback ==
    /\ srv_op = "get_random_quote"
    /\ C15_Satisfying(srv_args) = {}
    /\ srv_reply.quote \in 1..Len(Corpus)

(***************************************************************************)
(* C16 as stated: POST /mcp answers the two methods it recognizes with a   *)
(* {result} body and every other method value with an {error} body under  *)
(* a non-error status, and no request body makes it raise or return an     *)
(* HTTP error status.                                                      *)
(***************************************************************************)
C16_Recognized(request) ==
    /\ Present(request.method)
    /\ request.method[1].t = "str"
    /\ request.method[1].v \in {"get_inspirational_quote", "get_sleep_hygiene_tip"}

C16_Original ==
    srv_op = "mcp_endpoint"
    => /\ srv_reply.status = 200
       /\ C16_Recognized(srv_args) => srv_reply.body = "result"
       /\ (Present(srv_args.method) /\ ~C16_Recognized(srv_args))
          => srv_reply.body = "error"

(***************************************************************************)
(* C16: for every request body that is a JSON object, POST /mcp answers    *)
(* with status 200: a {result} body holding a corpus record for the two    *)
(* methods it recognizes (a sleep_hygiene record for                       *)
(* get_sleep_hygiene_tip) and also when "method" is missing, an {error}    *)
(* body for every other method value; a body that is missing or is not a   *)
(* JSON object is refused with status 422.                                 *)
(***************************************************************************)
C16_McpAnswers ==
    srv_op = "mcp_endpoint"
    => IF srv_args.shape = "object"
       THEN /\ srv_reply.status = 200
            /\ (C16_Recognized(srv_args) \/ ~Present(srv_args.method))
               => /\ srv_reply.body = "result"
                  /\ srv_reply.quote \in 1..Len(Corpus)
            /\ (/\ C16_Recognized(srv_args)
                /\ srv_args.method[1].v = "get_sleep_hygiene_tip")
               => Corpus[srv_reply.quote].category = "sleep_hygiene"
            /\ (Present(srv_args.method) /\ ~C16_Recognized(srv_args))
               => srv_reply.body = "error"
       ELSE srv_reply.status = 422 /\ srv_reply.body = "detail"

\* a method that is not recognized was answered with {error}, status 200
C16_Witness ==
    /\ srv_op = "mcp_endpoint"
    /\ srv_args.shape = "object"
    /\ Present(srv_args.method)
    /\ ~C16_Recognized(srv_args)
    /\ srv_reply.status = 200
    /\ srv_reply.body = "error"

(***************************************************************************)
(* C17 as stated: call_tool never raises; for every tool name and argument *)
(* map it returns a list with exactly one text item, which is an error     *)
(* text for unknown tools and for malformed arguments (arguments that the  *)
(* tool's inputSchema does not allow).                                     *)
(***************************************************************************)
C17_IsErrorText(item) == item.text.template \in {"error", "unknown_tool"}

C17_Original ==
    srv_op = "call_tool"
    => /\ ~srv_reply.raised
       /\ Len(srv_reply.content) = 1
       /\ srv_reply.content[1].type = "text"
       /\ (\/ srv_args.name \notin ToolNames
           \/ ~SchemaAllows(srv_args.name, srv_args.arguments))
          => C17_IsErrorText(srv_reply.content[1])

(***************************************************************************)
(* C17: call_tool never raises: for every tool name and argument map it    *)
(* returns a list with exactly one text item; the item is an error text    *)
(* exactly when the name is unknown or the handling of the arguments       *)
(* raises (search_sleep_quotes without "query" or with a query that is not *)
(* a string, get_bedtime_routine_reminder with an unhashable               *)
(* reminder_type); other arguments that the inputSchema does not allow are *)
(* answered with the normal text of the tool.                              *)
(***************************************************************************)
C17_HandlingRaises(name, a) ==
    \/ name = "search_sleep_quotes" /\ (~Present(a.query) \/ a.query[1].t # "str")
    \/ /\ name = "get_bedtime_routine_reminder"
       /\ Present(a.reminder_type)
       /\ a.reminder_type[1].t = "list"

C17_CallToolNeverRaises ==
    srv_op = "call_tool"
    => /\ ~srv_reply.raised
       /\ Len(srv_reply.content) = 1
       /\ srv_reply.content[1].type = "text"
       /\ C17_IsErrorText(srv_reply.content[1])
          <=> (\/ srv_args.name \notin ToolNames
               \/ C17_HandlingRaises(srv_args.name, srv_args.arguments))

\* the search tool was called without its required query
C17_Witness ==
    /\ srv_op = "call_tool"
    /\ srv_args.name = "search_sleep_quotes"
    /\ ~Present(srv_args.arguments.query)
    /\ ~srv_reply.raised
    /\ C17_IsErrorText(srv_reply.content[1])

(***************************************************************************)
(* C24: discovery is idempotent and sticky: when a pass is run again on a  *)
(* client that an earlier pass bound to u, the first probe goes to u, and  *)
(* if u answers healthy as before, the pass ends at once with is_connected *)
(* TRUE and server_url = u; the fallback URLs listed before u are not      *)
(* probed, whatever their health has become.                               *)
(***************************************************************************)
C24_DiscoverySticky ==
    [][ (pc = "probing" /\ idx = 1 /\ is_connected /\ op' = "probe")
        => /\ cands[1] = server_url
           /\ session = "open" => sent'[1].url = server_url
           /\ firstHealthy' # ""
              => /\ firstHealthy' = server_url
                 /\ pc' = "idle"
                 /\ is_connected'
                 /\ server_url' = server_url
                 /\ result' = BoolResult(TRUE)
                 /\ \A i \in 1..Len(fallback_urls) :
                       fallback_urls[i] # server_url => probed'[fallback_urls[i]] = 0 ]_vars

\* a client bound to the third URL of the fixed list ran a pass again and
\* the pass ended on its first probe, bound to the same URL
C24_Witness ==
    /\ PassEnded
    /\ idx = 1
    /\ result = BoolResult(TRUE)
    /\ is_connected
    /\ server_url = fallback_urls[3]
    /\ cands[1] = server_url
    /\ \A i \in 1..2 : probed[fallback_urls[i]] = 0

(***************************************************************************)
(* C27: time-of-day selection is total over the 24 hours: hours 6..17 map  *)
(* to morning, 18..21 to evening, 22..23 and 0..5 to night; with the       *)
(* shipped corpus the record returned for an hour has the time_of_day the  *)
(* hour maps to (the unfiltered fallback is not taken); and /api/quote     *)
(* called with time_based = true answers as it does without category and   *)
(* mood.                                                                   *)
(***************************************************************************)
C27_Expected(h) ==
    IF h \in 6..17 THEN "morning"
    ELSE IF h \in 18..21 THEN "evening"
    ELSE "night"

C27_TimeOfDaySelection ==
    (srv_op = "get_quote_api" /\ srv_args.time_based)
    => /\ srv_args.hour \in 0..23
       /\ time_filter(srv_args.hour) = C27_Expected(srv_args.hour)
       /\ srv_reply.status = 200
       /\ srv_reply.quote \in 1..Len(Corpus)
       /\ Corpus[srv_reply.quote].time_of_day = C27_Expected(srv_args.hour)
       /\ get_quote_api(srv_args, srv_args.hour)
            = get_quote_api([srv_args EXCEPT !.category = None, !.mood = None],
                            srv_args.hour)

\* at 18 h, with a category and a mood given, the answer is an evening
\* record of another category and another mood
C27_Witness ==
    /\ srv_op = "get_quote_api"
    /\ srv_args.time_based
    /\ srv_args.hour = 18
    /\ Truthy(srv_args.category)
    /\ Truthy(srv_args.mood)
    /\ Corpus[srv_reply.quote].time_of_day = "evening"
    /\ Corpus[srv_reply.quote].category # srv_args.category[1]
    /\ Corpus[srv_reply.quote].mood # srv_args.mood[1]

(***************************************************************************)
(* C25: the quote cache key is injective on (category, mood, time_based):  *)
(* two quote queries whose triples differ never use the same cache key, so *)
(* the result fetched for one triple is never returned from the cache to a *)
(* query with another triple.                                              *)
(***************************************************************************)
C25_QuoteKeyInjective ==
    [][ (op = "quote" /\ op' = "quote" /\ params' # params)
        => /\ arg' # arg
           /\ ~ (/\ sent # <<>>
                 /\ result.success
                 /\ sent' = <<>>
                 /\ result' = result) ]_vars

(***************************************************************************)
(* C21: the widening of cache_ttl to 3600 by get_daily_wisdom is never     *)
(* observable by another call: in every state in which another coroutine   *)
(* can run (every await) and after every completed or failed call,         *)
(* cache_ttl = 300, so every cache-validity check is evaluated with 300.   *)
(***************************************************************************)
C21_TtlOverrideNotObservable == cache_ttl = DefaultTtl

\* a daily wisdom was fetched and stored while another call is suspended
C21_Witness ==
    \E t \in TaskIds, u \in TaskIds :
        /\ tasks[t].pc = "done"
        /\ tasks[t].kind = "wisdom"
        /\ tasks[t].sent = 1
        /\ tasks[t].result.success
        /\ tasks[u].pc = "waiting"

(***************************************************************************)
(* C22: overlapping identical queries are not coalesced: every call that   *)
(* passed the cache check issued its own request and returns the result    *)
(* built from its own response; once two such calls for one key have       *)
(* succeeded the cache entry of the key is the result stored last; and the *)
(* cache entry of a key is always a result returned to a caller of it.     *)
(***************************************************************************)
C22_Fetched(t) ==
    /\ tasks[t].pc = "done"
    /\ tasks[t].sent = 1
    /\ tasks[t].result.success

C22_OverlappingNotCoalesced ==
    /\ \A t \in TaskIds : tasks[t].pc = "waiting" => tasks[t].sent = 1
    /\ \A t \in TaskIds :
          C22_Fetched(t) =>
             /\ tasks[t].result.ids = tasks[t].resp.ids
             /\ tasks[t].result.ts = tasks[t].resp.ts
    /\ \A t \in TaskIds, u \in TaskIds :
          (/\ C22_Fetched(t) /\ C22_Fetched(u)
           /\ tasks[t].key = tasks[u].key
           /\ tasks[t].seq < tasks[u].seq)
          => cache[tasks[u].key].data = tasks[u].result
    /\ \A k \in DOMAIN cache :
          \E t \in TaskIds :
             /\ tasks[t].pc = "done"
             /\ tasks[t].key = k
             /\ tasks[t].result = cache[k].data

\* two quote calls for one key fetched different results less than a TTL
\* apart: the second passed the cache check before the first stored
C22_Witness ==
    /\ C22_Fetched(1) /\ C22_Fetched(2)
    /\ tasks[1].kind = "quote" /\ tasks[2].kind = "quote"
    /\ tasks[1].key = tasks[2].key
    /\ tasks[1].result # tasks[2].result
    /\ tasks[1].result.ts - tasks[2].result.ts < DefaultTtl
    /\ tasks[2].result.ts - tasks[1].result.ts < DefaultTtl

(***************************************************************************)
(* C23: through the wrapper, no query is executed on the underlying client *)
(* before that client's initial discovery pass has completed, whatever the *)
(* interleaving of the first calls, and at most one client and HTTP        *)
(* session is created per wrapper.                                         *)
(***************************************************************************)
C23_NoQueryBeforeDiscovery ==
    /\ op \in QueryKinds => pc = "idle"
    /\ wrapper.sessions <= 1

(***************************************************************************)
(* C26 as stated: once close() has run, every call of get_quote, get_tip,  *)
(* search, get_daily_wisdom or status raises nothing and returns           *)
(* success = false unless it is answered from the cache without a request, *)
(* no HTTP session is open, and close() raises nothing.                    *)
(***************************************************************************)
C26_Original ==
    wrapper.closed # "no" =>
       /\ session # "open"
       /\ ~raised
       /\ (op \in QueryKinds \cup {"status"} /\ result.success) => sent = <<>>

(***************************************************************************)
(* C26 amended: once close() has run on a wrapper whose client existed,    *)
(* the session stays closed and is the only one ever opened, every call of *)
(* get_quote, get_tip, search, get_daily_wisdom or status raises nothing   *)
(* and returns success = false unless it returns a valid cache entry       *)
(* without sending a request, and close() again raises nothing.  close()   *)
(* on a wrapper that has no client changes nothing.                        *)
(***************************************************************************)
C26_UseAfterClose ==
    /\ wrapper.sessions <= 1
    /\ wrapper.closed = "used" =>
          /\ session = "closed"
          /\ wrapper.sessions = 1
          /\ ~raised
          /\ (op \in QueryKinds \cup {"status"} /\ result.success) =>
                /\ sent = <<>>
                /\ op \in CachedKinds
                /\ is_cache_valid(cache, cache_ttl, arg, now)
                /\ cache[arg].data = result
    /\ (wrapper.closed = "unused" /\ wrapper.client = "none") =>
          /\ session = "none"
          /\ wrapper.sessions = 0
          /\ ~raised

\* a query after close() had its request refused by the closed session
C26_Witness ==
    /\ wrapper.closed = "used"
    /\ op \in QueryKinds
    /\ resp = ClosedSessionResp
    /\ result = get_offline_response(op)

====
